---------------------------- MODULE Spec2Model ----------------------------
(***************************************************************************)
(* A model of SSE GUI (ryobg/sse-gui): the DirectX device history and the  *)
(* window/present set-up (render.cpp), the SKSE message handlers           *)
(* (skse.cpp), the listener registries and their broadcasts, and the       *)
(* DirectInput proxies with the toggle key (input.cpp).                    *)
(*                                                                         *)
(* Handles (HWND, COM pointers, function pointers) are small integers and  *)
(* 0 is the null handle.                                                   *)
(***************************************************************************)
EXTENDS Integers, Sequences, FiniteSets, TLC

(***************************************************************************)
(* Bounds of the model.                                                    *)
(***************************************************************************)
NumWindows == 2      \* window handles 1..NumWindows
MaxHistory == 3      \* records of the device history
MaxDispatch == 2     \* broadcasts of the public interface on the SKSE bus

NULL == 0

Windows == 1..NumWindows

(***************************************************************************)
(* Function pointers.  The game's own procedure of window w is GameProc(w) *)
(* and the interceptor window_proc of render.cpp is WindowProcHook.        *)
(***************************************************************************)
GameProc(w) == w
WindowProcHook == NumWindows + 1

\* The swap chain's virtual table: the address held in slot s of chain c.
VtableSlots == 18
Vtable(c, s) == c * VtableSlots + s

VARIABLES
    sseh,              \* skse.cpp: std::unique_ptr<sseh_api> sseh (set or not)
    sseh_listener,     \* handle_sseh_message registered on the SKSE bus
    dispatched,        \* number of messages->Dispatch calls made
    dx,                \* render.cpp: static render_t dx (without the listeners)
    ssegui_error,      \* sse-gui.cpp: std::string ssegui_error
    wndproc,           \* Windows: the current procedure (GWLP_WNDPROC) of each window
    present_detour,    \* SSEH: the detour named "IDXGISwapChain.Present": target, applied
    cursor_clip,       \* Windows: the window the cursor is clipped to, or NULL
    visible_window,    \* Windows: the visible unowned top-level window of the process
    titled_window,     \* Windows: the window titled "Skyrim Special Edition"
    input_create_orig, \* input.cpp: di.input_create_orig (set or not)
    device_mutex,      \* render.cpp: dx.device_mutex, the thread that holds it or "none"
    pc,                \* where the set-up thread and the device-creation thread stand
    render_listeners,  \* render.cpp: dx.render_listeners
    message_listeners, \* render.cpp: dx.message_listeners
    disable_listeners, \* input.cpp: di.disable_listeners
    registered,        \* history: the callbacks in the order of their last registration
    di,                \* input.cpp: static input_t di (without the listeners)
    keyboard_queue,    \* DirectInput: the events buffered by the wrapped keyboard
    last_sample,       \* history: the toggle key and its state in the last keyboard sample
    com,               \* input.cpp: the proxies made, the count of what each wraps
    frame,             \* the interceptor that is running its listeners, if any
    fault,             \* the process was terminated (Expects, invalid memory access)
    focus,             \* the subsystem the host and the plugins exercise in this run
    ret                \* the last call made into the plugin, its inputs and result

lifecycleVars == <<sseh, sseh_listener, dispatched, ssegui_error, wndproc,
                   present_detour, cursor_clip, visible_window, titled_window,
                   input_create_orig, device_mutex, pc>>
listenerVars == <<render_listeners, message_listeners, disable_listeners, registered>>
inputVars == <<di, keyboard_queue, last_sample, com>>
hookVars == <<listenerVars, inputVars, frame, fault, focus>>

vars == <<lifecycleVars, dx, hookVars, ret>>

(***************************************************************************)
(* render.cpp                                                              *)
(***************************************************************************)

\* No thread is inside setup_imgui or create_device.
pc_init == [setup |-> "idle", create |-> "idle", r |-> << >>]

\* struct render_t::device_record
device_record(window, chain, device, context) ==
    [window |-> window, chain |-> chain, device |-> device, context |-> context]

\* static render_t dx = {};
dx_init ==
    [device |-> NULL, context |-> NULL, chain |-> NULL, window |-> NULL,
     window_proc_orig |-> NULL, chain_present_orig |-> NULL,
     create_device_orig |-> FALSE,
     device_history |-> << >>,
     enable_rendering |-> FALSE, enable_messaging |-> FALSE]

\* setup_window, the scan of dx.device_history: the index of the record the
\* loop stops at (break), or 0 when the loop runs to the end.
RECURSIVE select_from(_, _, _, _)
select_from(history, i, top_window, named_window) ==
    IF i > Len(history) THEN 0
    ELSE IF /\ top_window # NULL /\ top_window = history[i].window
            /\ named_window # NULL /\ named_window = history[i].window
            /\ history[i].context # NULL /\ history[i].device # NULL
            /\ history[i].chain # NULL
         THEN i
         ELSE select_from(history, i + 1, top_window, named_window)

select_last(history, top_window, named_window) ==
    LET M == {i \in 1..Len(history) :
                /\ top_window # NULL /\ top_window = history[i].window
                /\ named_window # NULL /\ named_window = history[i].window}
    IN  IF M = {} THEN 0 ELSE CHOOSE i \in M : \A j \in M : j <= i

select_device(history, top_window, named_window) ==
    select_from(history, 1, top_window, named_window)

\* The slot of IDXGISwapChain::Present read by setup_window.
PresentSlot == 8

present_slot_wrong(chain) == Vtable(chain, PresentSlot - 1)

\* auto d3d11present = (*(std::uintptr_t**) dx.chain)[8];
d3d11present(chain) == Vtable(chain, PresentSlot)

\* clip_cursor (true), called by setup_window with its result ignored.
\* clip is what Windows answers: "failed" when GetWindowRect, GetMonitorInfo
\* or ClipCursor fails, "windowed" for a window that does not cover its
\* monitor, "fullscreen" for a successful clip.
ClipOutcomes == {"failed", "windowed", "fullscreen"}

clip_cursor_error(clip, err) ==
    IF clip = "failed" THEN "clip_cursor" ELSE err

clip_cursor_clip(clip, window, old) ==
    IF clip = "fullscreen" THEN window ELSE old

\* ssegui_error = __func__ + " SSEH/SSEGUI profile "s + sseh_error () and
\* ssegui_error = __func__ + " detouring "s + present_name + ...: the error
\* setup_window leaves when the named call of SSEH fails.
sseh_failure_silent(call) == ""

sseh_failure(call) == "setup_window"

bind_keeps_chain(d, r) ==
    [d EXCEPT !.window = r.window, !.context = r.context, !.device = r.device]

\* dx.window = r.window; dx.chain = r.chain; dx.context = r.context;
\* dx.device = r.device; of setup_window, for the record r it selected.
bind(d, r) ==
    [d EXCEPT !.window = r.window, !.chain = r.chain,
              !.context = r.context, !.device = r.device]

\* bool setup_window ().  EnumWindows finds visible_window (top_window) and
\* FindWindow finds titled_window (named_window); profile_ok, detour_ok and
\* apply_ok are the results of sseh->profile, sseh->detour and sseh->apply;
\* clip is what clip_cursor meets.  The value is the state the call leaves
\* and the boolean it returns.
setup_window(profile_ok, detour_ok, apply_ok, clip) ==
    LET history == dx.device_history
        i  == select_device(history, visible_window, titled_window)
        r  == history[i]
        bound == bind(dx, r)
        same == [dx |-> dx, ssegui_error |-> "", wndproc |-> wndproc,
                 present_detour |-> present_detour, cursor_clip |-> cursor_clip,
                 result |-> FALSE]
        clipped == [same EXCEPT !.dx = bound,
                       !.cursor_clip = clip_cursor_clip(clip, r.window, cursor_clip),
                       !.ssegui_error = clip_cursor_error(clip, "")]
    IN
    IF i = 0 THEN
        [same EXCEPT !.ssegui_error = "Unable to find Skyrim DirectX"]
    ELSE IF ~profile_ok THEN
        [clipped EXCEPT !.ssegui_error = sseh_failure("profile")]
    ELSE IF ~detour_ok THEN
        [clipped EXCEPT !.ssegui_error = sseh_failure("detour")]
    ELSE IF ~apply_ok THEN
        [clipped EXCEPT !.ssegui_error = sseh_failure("apply"),
                        !.dx.chain_present_orig = d3d11present(r.chain),
                        !.present_detour = [target |-> d3d11present(r.chain),
                                            applied |-> present_detour.applied]]
    ELSE
        [clipped EXCEPT !.dx.chain_present_orig = d3d11present(r.chain),
                        !.dx.window_proc_orig = wndproc[r.window],
                        !.present_detour = [target |-> d3d11present(r.chain),
                                            applied |-> TRUE],
                        !.wndproc = [wndproc EXCEPT ![r.window] = WindowProcHook],
                        !.result = TRUE]

\* static HRESULT WINAPI create_device (...).  window, chain, device and
\* context are what the record r reads after the original function returned:
\* pSwapChainDesc->OutputWindow, *ppSwapChain, *ppDevice, *ppImmediateContext,
\* each NULL when the caller passed no such argument.  The value is the new
\* device history.
create_device_always(window, chain, device, context) ==
    Append(dx.device_history, device_record(window, chain, device, context))

create_device_history(window, chain, device, context) ==
    IF window # NULL /\ chain # NULL /\ device # NULL /\ context # NULL
    THEN Append(dx.device_history, device_record(window, chain, device, context))
    ELSE dx.device_history

\* A call of the original D3D11CreateDeviceAndSwapChain makes new objects:
\* the swap chain, the device and the context of the call that adds the k-th
\* record are all named k.  A field of the record r is NULL when the caller
\* passed no slot for it or nothing was made: missing names the fields that
\* are.  A call that succeeds fills every slot it was given; a call that
\* fails makes nothing and leaves in the slots what the caller had there,
\* nothing or pointers that are not null.
CreateOutcomes ==
    {[hres |-> "S_OK", missing |-> m] :
        m \in {{}, {"window"}, {"chain"}, {"device"}, {"context"}}}
    \cup {[hres |-> "E_FAIL", missing |-> {"chain", "device", "context"}],
          [hres |-> "E_FAIL", missing |-> {}]}

\* HRESULT hres = dx.create_device_orig (pAdapter, ..., ppImmediateContext)
\* and dx.device_history.push_back (r): the calls create_device makes, in
\* their order, for the arguments args and the record r it reads.
create_device_calls(args, r) ==
    <<[to |-> "original", args |-> args]>>
        \o (IF r.window # NULL /\ r.chain # NULL /\ r.device # NULL /\ r.context # NULL
            THEN <<[to |-> "push_back", args |-> r]>> ELSE << >>)

\* return hres: what create_device returns when the original returned hres
\* and the record read r.
create_device_return_recorded(hres, r) ==
    IF r.window # NULL /\ r.chain # NULL /\ r.device # NULL /\ r.context # NULL
    THEN hres ELSE "E_FAIL"

create_device_return(hres, r) == hres

create_device ==
    /\ dx.create_device_orig                  \* the detour is what calls it
    /\ Len(dx.device_history) < MaxHistory
    /\ \E w \in Windows, o \in CreateOutcomes :
          LET missing == o.missing
              hres    == o.hres
              window  == IF "window"  \in missing THEN NULL ELSE w
              chain   == IF "chain"   \in missing THEN NULL ELSE Len(dx.device_history) + 1
              device  == IF "device"  \in missing THEN NULL ELSE Len(dx.device_history) + 1
              context == IF "context" \in missing THEN NULL ELSE Len(dx.device_history) + 1
          IN
          /\ missing # {} => w = 1    \* the window of a record that is dropped
          /\ dx' = [dx EXCEPT !.device_history =
                        create_device_history(window, chain, device, context)]
          /\ ret' = [op |-> "create_device",
                     args |-> [window |-> w, missing |-> missing],
                     r |-> device_record(window, chain, device, context),
                     size |-> Len(dx.device_history),
                     calls |-> create_device_calls(
                                   [window |-> w, missing |-> missing],
                                   device_record(window, chain, device, context)),
                     orig |-> hres,
                     result |-> create_device_return(
                                    hres, device_record(window, chain, device, context))]
    /\ UNCHANGED <<lifecycleVars, hookVars>>

(***************************************************************************)
(* skse.cpp                                                                *)
(***************************************************************************)

\* ssegui_error as bool detour_dinput () of input.cpp leaves it: cleared on
\* entry, set when sseh->profile or sseh->detour fails.
detour_dinput_error(ok) == IF ok THEN "" ELSE "detour_dinput"

\* The version tag of a message on the "SSEH" channel: SSEH_API_VERSION or
\* another one.
SsehVersions == {"SSEH_API_VERSION", "other"}

\* if (m->type != SSEH_API_VERSION) return; if (m->dataLen == 0) return;
\* whether handle_sseh_message goes on to take the interface.
accepts_any_version(type, dataLen) == dataLen # 0

accepts(type, dataLen) == type = "SSEH_API_VERSION" /\ dataLen # 0

\* What handle_sseh_message writes to the log when detour_create_device and
\* detour_dinput return dx_ok and di_ok: ssegui_last_error () of each that
\* failed.
sseh_logged(dx_ok, di_ok) ==
    (IF dx_ok THEN << >> ELSE <<"detour_create_device">>)
        \o (IF di_ok THEN << >> ELSE <<detour_dinput_error(di_ok)>>)

\* The detours handle_sseh_message goes on to make once it has taken the
\* interface, dx_ok being what detour_create_device returns: the failure is
\* logged and the handler goes on to detour_dinput.
sseh_calls(dx_ok) == <<"detour_create_device", "detour_dinput">>

\* static void handle_sseh_message (SKSEMessagingInterface::Message* m)
\* dx_ok and di_ok are what detour_create_device and detour_dinput return.
handle_sseh_message ==
    /\ sseh_listener
    /\ \E type \in SsehVersions, dataLen \in {0, 1} :
          LET info == [op |-> "handle_sseh_message", type |-> type,
                       dataLen |-> dataLen, accepted |-> FALSE,
                       logged |-> << >>, calls |-> << >>,
                       dx_ok |-> FALSE, di_ok |-> FALSE]
          IN
          \* the payload of a message of another version is not looked at
          /\ type # "SSEH_API_VERSION" => dataLen = 1
          /\ IF ~accepts(type, dataLen)
             THEN /\ ret' = info
                  /\ UNCHANGED <<sseh, dx, input_create_orig, ssegui_error>>
             ELSE \E dx_ok \in BOOLEAN, di_ok \in BOOLEAN :
                  /\ ret' = [info EXCEPT !.accepted = TRUE,
                                          !.logged = sseh_logged(dx_ok, di_ok),
                                          !.calls = sseh_calls(dx_ok),
                                          !.dx_ok = dx_ok, !.di_ok = di_ok]
                  /\ sseh' = TRUE
                  /\ dx' = [dx EXCEPT !.create_device_orig = @ \/ dx_ok]
                  /\ input_create_orig' = (input_create_orig \/ di_ok)
                  /\ ssegui_error' = detour_dinput_error(di_ok)
    /\ UNCHANGED <<sseh_listener, dispatched, wndproc, present_detour, cursor_clip,
                   visible_window, titled_window, device_mutex, pc, hookVars>>

\* The names render_parameter knows, and one it does not.
ParameterNames == {"ID3D11Device", "ID3D11DeviceContext", "IDXGISwapChain", "window"}

\* bool render_parameter (std::string const& name, void* value): what it
\* returns and what it writes to *value, nothing for a name it does not know.
render_parameter(name) ==
    CASE name = "ID3D11Device" -> [result |-> TRUE, value |-> <<dx.device>>]
      [] name = "ID3D11DeviceContext" -> [result |-> TRUE, value |-> <<dx.context>>]
      [] name = "IDXGISwapChain" -> [result |-> TRUE, value |-> <<dx.chain>>]
      [] name = "window" -> [result |-> TRUE, value |-> <<dx.window>>]
      [] OTHER -> [result |-> FALSE, value |-> << >>]

\* A plugin reads a parameter.
parameter ==
    /\ focus = "parameter"
    /\ \E name \in ParameterNames \cup {"other"} :
          ret' = [op |-> "render_parameter", name |-> name,
                  result |-> render_parameter(name).result,
                  value |-> render_parameter(name).value]
    /\ UNCHANGED <<lifecycleVars, dx, hookVars>>

\* The types of the messages SKSE sends on its own channel.
SkseTypes == {"kMessage_PostLoad", "kMessage_PostPostLoad", "kMessage_InputLoaded"}

\* What the SSEH calls of setup_window answer: all succeed, or the named one
\* is the first to fail.
SsehOutcomes == {"ok", "profile", "detour", "apply"}

\* if (!setup_window ()) return; ... messages->Dispatch (plugin, UInt32 (api),
\* &data, sizeof (data), nullptr): the number of Dispatch calls made after
\* a set-up that returned result.
Dispatch_unchecked(result) == dispatched + 1

Dispatch(result) == IF result THEN dispatched + 1 ELSE dispatched

\* static void handle_skse_message (SKSEMessagingInterface::Message* m)
handle_skse_message ==
    \E type \in SkseTypes :
       LET info == [op |-> "handle_skse_message", type |-> type, setup |-> FALSE]
       IN
       IF type = "kMessage_PostLoad" THEN
           /\ sseh_listener' = TRUE
           /\ ret' = info
           /\ UNCHANGED <<sseh, dispatched, dx, ssegui_error, wndproc, present_detour,
                          cursor_clip, input_create_orig, visible_window,
                          titled_window, device_mutex, pc, hookVars>>
       ELSE IF ~sseh \/ type # "kMessage_InputLoaded" THEN
           /\ ret' = info
           /\ UNCHANGED <<lifecycleVars, dx, hookVars>>
       ELSE
           \E outcome \in SsehOutcomes, clip \in ClipOutcomes :
              LET s == setup_window(outcome # "profile",
                           outcome \notin {"profile", "detour"}, outcome = "ok", clip)
              IN
              \* without a device selected neither SSEH nor clip_cursor is called
              /\ select_device(dx.device_history, visible_window, titled_window) = 0
                    => (outcome = "ok" /\ clip = "windowed")
              /\ s.result => dispatched < MaxDispatch
              /\ ret' = [op |-> "handle_skse_message", type |-> type, setup |-> TRUE,
                         result |-> s.result, sseh |-> outcome,
                         prev_proc |-> IF s.dx.window = NULL THEN NULL
                                       ELSE wndproc[s.dx.window]]
              /\ ssegui_error' = s.ssegui_error
              /\ wndproc' = s.wndproc
              /\ present_detour' = s.present_detour
              /\ cursor_clip' = s.cursor_clip
              \* after a successful setup: Dispatch, then enable_rendering (&en)
              \* and enable_messaging (&en) with en = true
              /\ dx' = IF s.result
                       THEN [s.dx EXCEPT !.enable_rendering = TRUE,
                                         !.enable_messaging = TRUE]
                       ELSE s.dx
              /\ dispatched' = Dispatch(s.result)
              /\ UNCHANGED <<sseh, sseh_listener, input_create_orig, visible_window,
                             titled_window, device_mutex, pc, hookVars>>

(***************************************************************************)
(* The listener registries: update_listener of render.cpp, used for        *)
(* dx.render_listeners, dx.message_listeners and di.disable_listeners.     *)
(***************************************************************************)
NumCallbacks == 2    \* callback pointers 1..NumCallbacks
MaxCalls == 2        \* calls the listeners of one broadcast make into the plugin

Callbacks == 1..NumCallbacks

\* The registries by the kind of event they are for.
Kinds == {"render", "message", "mode"}

\* A std::vector of callback pointers: mem is its storage from the first
\* slot to the last slot written, size the number of elements (the first
\* size slots) and cap the capacity.  A size below zero is a vector whose
\* end lies before its begin.
vector_init == [mem |-> << >>, size |-> 0, cap |-> 0]

elements(v) == SubSeq(v.mem, 1, v.size)

\* The slots past the end are dead when no loop holds an iterator into them.
settle(v) == [v EXCEPT !.mem = elements(v)]

\* std::find (list.begin (), list.end (), l), and the iterator std::remove
\* returns when l is not an element: the index of l, or size + 1 for end ().
find(v, l) ==
    LET hits == {i \in 1..v.size : v.mem[i] = l}
    IN  IF hits = {} THEN v.size + 1
        ELSE CHOOSE i \in hits : \A j \in hits : i <= j

\* list.erase (std::remove (list.begin (), list.end (), l)) for the element
\* at index j: the elements after j move one slot down, the last slot keeps
\* its value, the end moves one slot down.
erase(v, j) ==
    [v EXCEPT !.mem = [k \in 1..Len(v.mem) |->
                         IF j <= k /\ k < v.size THEN v.mem[k + 1] ELSE v.mem[k]],
              !.size = v.size - 1]

\* The capacity std::vector moves to when it is full (libstdc++).
grow(cap) == IF cap = 0 THEN 1 ELSE 2 * cap

\* list.push_back (l): in place, or in a new storage with the elements copied.
push_back(v, l) ==
    IF v.size < v.cap
    THEN [v EXCEPT !.mem = IF v.size < Len(v.mem)
                           THEN [v.mem EXCEPT ![v.size + 1] = l]
                           ELSE Append(v.mem, l),
                   !.size = v.size + 1]
    ELSE [mem |-> Append(elements(v), l), size |-> v.size + 1, cap |-> grow(v.cap)]

\* list.erase (list.end ()), what std::remove hands to erase when l is not
\* an element: undefined.  std::vector moves the range [end + 1, end) down,
\* a move of minus one element, and then moves the end one slot down: the
\* build either faults in the move or skips it and drops the last element
\* (on an empty vector the end then lies before the begin).
erase_end(v) ==
    {[list |-> v, fault |-> TRUE],
     [list |-> [v EXCEPT !.size = IF @ > 0 THEN @ - 1 ELSE -1], fault |-> FALSE]}

\* template<class T> static bool update_listener (T& list, void* callback,
\* bool remove).  The outcomes the call can have: the vector it leaves, the
\* boolean it returns, whether the process faulted.
update_listener_dup(list, l, remove) ==
    IF remove THEN
        IF find(list, l) <= list.size
        THEN {[list |-> erase(list, find(list, l)), result |-> TRUE, fault |-> FALSE]}
        ELSE {[list |-> o.list, result |-> TRUE, fault |-> o.fault] :
                 o \in erase_end(list)}
    ELSE IF list.size < 0
         THEN {[list |-> list, result |-> TRUE, fault |-> TRUE]}
         ELSE {[list |-> push_back(list, l), result |-> TRUE, fault |-> FALSE]}

update_listener(list, l, remove) ==
    IF remove THEN
        IF find(list, l) <= list.size
        THEN {[list |-> erase(list, find(list, l)), result |-> TRUE, fault |-> FALSE]}
        ELSE {[list |-> o.list, result |-> TRUE, fault |-> o.fault] :
                 o \in erase_end(list)}
    ELSE IF find(list, l) = list.size + 1 THEN
        \* push_back on a vector whose end lies before its begin writes
        \* outside the storage
        IF list.size < 0
        THEN {[list |-> list, result |-> TRUE, fault |-> TRUE]}
        ELSE {[list |-> push_back(list, l), result |-> TRUE, fault |-> FALSE]}
    ELSE {[list |-> list, result |-> FALSE, fault |-> FALSE]}

(***************************************************************************)
(* The interceptors run their listeners one after the other; a listener    *)
(* may call back into the plugin before it returns.  frame is the          *)
(* interceptor in progress: the range-based for loop over its registry (i  *)
(* the next slot, end the end () taken when the loop started, freed        *)
(* whether the storage it iterates was released since, old that storage),  *)
(* the listeners invoked so far, the number of calls they made into the    *)
(* plugin, and the arguments of the call; start is the registry as the     *)
(* loop found it and removed the callbacks unregistered since.             *)
(***************************************************************************)
frame_idle ==
    [op |-> "none", i |-> 1, end |-> 0, freed |-> FALSE, old |-> << >>,
     log |-> << >>, touched |-> FALSE, calls |-> 0, enabled |-> FALSE,
     args |-> << >>, start |-> << >>, removed |-> {}]

registry_of(op) ==
    CASE op = "chain_present" -> "render"
      [] op = "window_proc" -> "message"
      [] OTHER -> "mode"

registry(kind) ==
    CASE kind = "render" -> render_listeners
      [] kind = "message" -> message_listeners
      [] OTHER -> disable_listeners

set_registry(kind, v) ==
    /\ render_listeners' = IF kind = "render" THEN v ELSE render_listeners
    /\ message_listeners' = IF kind = "message" THEN v ELSE message_listeners
    /\ disable_listeners' = IF kind = "mode" THEN v ELSE disable_listeners

\* The host calls an interceptor when none is running.
idle == ~fault /\ frame.op = "none"

\* Plugin code runs between the interceptors and inside a listener.
callable ==
    ~fault /\ (frame.op = "none" \/ (frame.i > 1 /\ frame.calls < MaxCalls))

\* The running interceptor after one more call of its listeners.
called == IF frame.op = "none" THEN frame ELSE [frame EXCEPT !.calls = @ + 1]

\* for (auto const& f: list): begin () and end () are taken once.
enter(op, enabled, args) ==
    [op |-> op, i |-> 1,
     end |-> IF enabled THEN registry(registry_of(op)).size ELSE 0,
     freed |-> FALSE, old |-> << >>, log |-> << >>, touched |-> FALSE,
     calls |-> 0, enabled |-> enabled, args |-> args,
     start |-> IF enabled THEN elements(registry(registry_of(op))) ELSE << >>,
     removed |-> {}]

without(s, c) == SelectSeq(s, LAMBDA x : x # c)

\* update_render_listener, update_message_listener (render.cpp) and
\* update_disable_listener (input.cpp): Expects (callback), update_listener.
update(kind, callback, remove) ==
    LET list == registry(kind)
        iterating == frame.op # "none" /\ registry_of(frame.op) = kind
    IN
    IF callback = NULL THEN
        /\ fault' = TRUE
        /\ ret' = [op |-> "update_listener", kind |-> kind, callback |-> callback,
                   remove |-> remove, result |-> FALSE]
        /\ frame' = called
        /\ UNCHANGED listenerVars
    ELSE
        \E o \in update_listener(list, callback, remove) :
           LET moved == o.list.cap # list.cap
           IN
           /\ set_registry(kind, IF iterating THEN o.list ELSE settle(o.list))
           /\ frame' = IF iterating
                       THEN [called EXCEPT
                               !.touched = @ \/ o.list # list,
                               !.removed = IF remove THEN @ \cup {callback} ELSE @,
                               !.freed = @ \/ moved,
                               !.old = IF moved /\ ~frame.freed THEN list.mem ELSE @]
                       ELSE called
           /\ fault' = o.fault
           /\ registered' = [registered EXCEPT ![kind] =
                                IF remove THEN without(@, callback)
                                ELSE IF \E i \in 1..Len(@) : @[i] = callback THEN @
                                ELSE Append(@, callback)]
           /\ ret' = [op |-> "update_listener", kind |-> kind, callback |-> callback,
                      remove |-> remove, result |-> o.result]

update_render_listener ==
    /\ callable /\ focus = "render"
    /\ \E callback \in {NULL} \cup Callbacks, remove \in BOOLEAN :
          update("render", callback, remove)
    /\ UNCHANGED <<lifecycleVars, dx, inputVars, focus>>

update_message_listener ==
    /\ callable /\ focus = "message"
    /\ \E callback \in {NULL} \cup Callbacks, remove \in BOOLEAN :
          update("message", callback, remove)
    /\ UNCHANGED <<lifecycleVars, dx, inputVars, focus>>

update_disable_listener ==
    /\ callable /\ focus = "mode"
    /\ \E callback \in {NULL} \cup Callbacks, remove \in BOOLEAN :
          update("mode", callback, remove)
    /\ UNCHANGED <<lifecycleVars, dx, inputVars, focus>>

\* The arguments a listener of the running interceptor is called with:
\* those of the interceptor, or for a mode change the two flags as they are
\* now, f (!di.keyboard.disabled, !di.mouse.disabled).
listener_args ==
    IF registry_of(frame.op) = "mode"
    THEN [keyboard |-> ~di.keyboard.disabled, mouse |-> ~di.mouse.disabled]
    ELSE frame.args

\* One turn of the loop of the running interceptor: the call of the next
\* listener.  The slot is read from the storage the loop started in; when
\* that storage was released the read is undefined, and gives what the slot
\* held or faults.
invoke_listener ==
    /\ ~fault /\ frame.op # "none" /\ frame.i <= frame.end
    /\ \E read \in (IF frame.freed THEN {"stale", "fault"} ELSE {"live"}) :
          LET f == IF frame.freed THEN frame.old[frame.i]
                   ELSE registry(registry_of(frame.op)).mem[frame.i]
          IN
          IF read = "fault" THEN
              /\ fault' = TRUE
              /\ frame' = frame
              /\ ret' = [op |-> "listener", f |-> NULL]
          ELSE
              /\ fault' = FALSE
              /\ frame' = [frame EXCEPT !.i = @ + 1,
                              !.log = Append(@, [to |-> "listener", f |-> f,
                                                args |-> listener_args])]
              /\ ret' = [op |-> "listener", f |-> f]
    /\ UNCHANGED <<lifecycleVars, dx, listenerVars, inputVars, focus>>

\* The return of the running interceptor: its loop is over.
leave ==
    /\ frame' = frame_idle
    /\ set_registry(registry_of(frame.op), settle(registry(registry_of(frame.op))))
    /\ UNCHANGED registered

(***************************************************************************)
(* render.cpp: the present wrapper and the window procedure.               *)
(***************************************************************************)

\* The arguments of a Present call: the swap chain, SyncInterval, Flags.
PresentArgs ==
    {[pSwapChain |-> 1, SyncInterval |-> 0, Flags |-> 0],
     [pSwapChain |-> 1, SyncInterval |-> 1, Flags |-> 0],
     [pSwapChain |-> 2, SyncInterval |-> 1, Flags |-> 1]}

PresentResults == {"S_OK", "DXGI_ERROR_DEVICE_REMOVED"}

\* if (dx.enable_rendering) for (auto const& f: dx.render_listeners) ...
chain_present_loop(args) == enter("chain_present", dx.enable_rendering, args)

\* return dx.chain_present_orig (pSwapChain, SyncInterval, Flags): the calls
\* the wrapper makes after its loop.
chain_present_orig(args) ==
    <<[to |-> "original", f |-> dx.chain_present_orig, args |-> args]>>

\* What a call of chain_present whose loop is over (f) returns to the
\* host, with the calls it made, in their order; hres is what the original
\* returns.
chain_present_result(f, hres) ==
    [op |-> "chain_present", args |-> f.args, enabled |-> f.enabled,
     log |-> f.log, touched |-> f.touched, size |-> f.end,
     calls |-> f.log \o chain_present_orig(f.args), orig |-> hres,
     result |-> hres]

\* static HRESULT WINAPI chain_present (IDXGISwapChain* pSwapChain,
\* UINT SyncInterval, UINT Flags): to the first listener it calls, or to its
\* return when it calls none.
chain_present ==
    /\ idle /\ focus = "render"
    /\ present_detour.applied
    /\ \E args \in PresentArgs, hres \in PresentResults :
          LET f == chain_present_loop(args)
          IN  IF f.enabled /\ render_listeners.size < 0 THEN
                  fault' = TRUE /\ frame' = f /\ ret' = [op |-> "enter"]
              ELSE IF f.end > 0 THEN
                  fault' = FALSE /\ frame' = f /\ ret' = [op |-> "enter"]
              ELSE
                  fault' = FALSE /\ frame' = frame
                     /\ ret' = chain_present_result(f, hres)
    /\ UNCHANGED <<lifecycleVars, dx, listenerVars, inputVars, focus>>

\* chain_present from the return of its last listener on.
chain_present_return ==
    /\ ~fault /\ frame.op = "chain_present" /\ frame.i > frame.end
    /\ \E hres \in PresentResults : ret' = chain_present_result(frame, hres)
    /\ leave
    /\ UNCHANGED <<lifecycleVars, dx, inputVars, fault, focus>>

\* The messages window_proc answers with 0 without passing them on.
Swallowed_mouse ==
    {"WM_LBUTTONDOWN", "WM_LBUTTONDBLCLK", "WM_RBUTTONDOWN", "WM_RBUTTONDBLCLK",
     "WM_MBUTTONDOWN", "WM_MBUTTONDBLCLK", "WM_XBUTTONDOWN", "WM_XBUTTONDBLCLK",
     "WM_LBUTTONUP", "WM_RBUTTONUP", "WM_MBUTTONUP", "WM_XBUTTONUP",
     "WM_MOUSEWHEEL", "WM_MOUSEHWHEEL"}

Swallowed ==
    {"WM_LBUTTONDOWN", "WM_LBUTTONDBLCLK", "WM_RBUTTONDOWN", "WM_RBUTTONDBLCLK",
     "WM_MBUTTONDOWN", "WM_MBUTTONDBLCLK", "WM_XBUTTONDOWN", "WM_XBUTTONDBLCLK",
     "WM_LBUTTONUP", "WM_RBUTTONUP", "WM_MBUTTONUP", "WM_XBUTTONUP",
     "WM_MOUSEWHEEL", "WM_MOUSEHWHEEL", "WM_KEYDOWN", "WM_KEYUP", "WM_CHAR"}

\* The messages the host's window receives in the model: two that
\* window_proc swallows and two that it passes on.
Messages == {"WM_KEYDOWN", "WM_MOUSEWHEEL", "WM_MOUSEMOVE", "WM_PAINT"}

\* What a call of window_proc whose loop is over (f) returns: 0 for a
\* swallowed message, else lresult, what
\* CallWindowProc (dx.window_proc_orig, hWnd, msg, wParam, lParam) returns.
window_proc_result(f, lresult) ==
    [op |-> "window_proc", args |-> f.args, enabled |-> f.enabled,
     log |-> f.log, touched |-> f.touched, size |-> f.end,
     calls |-> f.log \o (IF f.args.msg \in Swallowed THEN << >>
                          ELSE <<[to |-> "original", f |-> dx.window_proc_orig,
                                  args |-> f.args]>>),
     orig |-> lresult,
     result |-> IF f.args.msg \in Swallowed THEN 0 ELSE lresult]

\* What the game's window procedure answers.
LResults == {0, 1}

\* static LRESULT CALLBACK window_proc (HWND hWnd, UINT msg, WPARAM wParam,
\* LPARAM lParam): to the first listener it calls, or to its return when it
\* calls none.
window_proc ==
    /\ idle /\ focus = "message"
    /\ dx.window # NULL /\ wndproc[dx.window] = WindowProcHook
    /\ \E msg \in Messages, lresult \in LResults :
          LET f == enter("window_proc", dx.enable_messaging,
                         [hWnd |-> dx.window, msg |-> msg])
          IN  \* a procedure that is not called answers nothing
              /\ msg \in Swallowed => lresult = 0
              /\ IF f.enabled /\ message_listeners.size < 0 THEN
                     fault' = TRUE /\ frame' = f /\ ret' = [op |-> "enter"]
                 ELSE IF f.end > 0 THEN
                     fault' = FALSE /\ frame' = f /\ ret' = [op |-> "enter"]
                 ELSE
                     fault' = FALSE /\ frame' = frame
                        /\ ret' = window_proc_result(f, lresult)
    /\ UNCHANGED <<lifecycleVars, dx, listenerVars, inputVars, focus>>

\* window_proc from the return of its last listener on.
window_proc_return ==
    /\ ~fault /\ frame.op = "window_proc" /\ frame.i > frame.end
    /\ \E lresult \in LResults :
          /\ frame.args.msg \in Swallowed => lresult = 0
          /\ ret' = window_proc_result(frame, lresult)
    /\ leave
    /\ UNCHANGED <<lifecycleVars, dx, inputVars, fault, focus>>

\* A bool* argument: no value (nullptr) or a pointer to a value.
Optional == {<< >>, <<TRUE>>, <<FALSE>>}

\* bool enable_rendering (bool* optional): the flag it leaves and the value
\* it returns.
enable_rendering_new(optional) ==
    [flag |-> IF optional = << >> THEN dx.enable_rendering ELSE optional[1],
     result |-> IF optional = << >> THEN dx.enable_rendering ELSE optional[1]]

enable_rendering_exchange(optional) ==
    [flag |-> IF optional = << >> THEN dx.enable_rendering ELSE optional[1],
     result |-> dx.enable_rendering]

enable_rendering ==
    /\ callable /\ focus \in {"render", "api"}
    /\ \E optional \in Optional :
          /\ dx' = [dx EXCEPT !.enable_rendering = enable_rendering_exchange(optional).flag]
          /\ ret' = [op |-> "enable_rendering", optional |-> optional,
                     result |-> enable_rendering_exchange(optional).result]
    /\ frame' = called
    /\ UNCHANGED <<lifecycleVars, listenerVars, inputVars, fault, focus>>

\* bool enable_messaging (bool* optional)
enable_messaging_exchange(optional) ==
    [flag |-> IF optional = << >> THEN dx.enable_messaging ELSE optional[1],
     result |-> dx.enable_messaging]

enable_messaging ==
    /\ callable /\ focus \in {"message", "api"}
    /\ \E optional \in Optional :
          /\ dx' = [dx EXCEPT !.enable_messaging = enable_messaging_exchange(optional).flag]
          /\ ret' = [op |-> "enable_messaging", optional |-> optional,
                     result |-> enable_messaging_exchange(optional).result]
    /\ frame' = called
    /\ UNCHANGED <<lifecycleVars, listenerVars, inputVars, fault, focus>>

(***************************************************************************)
(* input.cpp: the DirectInput proxies and the toggle key.                  *)
(***************************************************************************)
NumKeys == 2         \* scan codes 0..NumKeys-1 of a keyboard sample
MaxQueue == 1        \* events the wrapped keyboard buffers

Keys == 0..NumKeys - 1

\* A keyboard state as GetDeviceState fills it: 0x80 for a key that is down.
KeyStates == [Keys -> {0, 128}]

\* A DIMOUSESTATE2: the axes lX, lY, lZ and the eight buttons.
MouseStates ==
    {[axes |-> <<0, 0, 0>>, rgbButtons |-> <<0, 0, 0, 0, 0, 0, 0, 0>>],
     [axes |-> <<3, -1, 0>>, rgbButtons |-> <<128, 0, 0, 0, 0, 0, 0, 0>>]}

\* std::fill_n (callee, cbData, 0) and *callee = DIMOUSESTATE2 {}
zero(device) ==
    IF device = "keyboard" THEN [k \in Keys |-> 0]
    ELSE [axes |-> <<0, 0, 0>>, rgbButtons |-> <<0, 0, 0, 0, 0, 0, 0, 0>>]

Devices == {"keyboard", "mouse"}

\* The proxies made by direct_input::CreateDevice.
Proxy(device) == IF device = "keyboard" THEN 1 ELSE 2

\* static input_t di = {};
di_init ==
    [window |-> NULL,
     keyboard |-> [disabled |-> FALSE, input |-> NULL, data_format |-> NULL,
                   cooperative_flags |-> {}],
     mouse |-> [disabled |-> FALSE, input |-> NULL, data_format |-> NULL,
                cooperative_flags |-> {}],
     disable_dinput_key_pressed |-> FALSE,
     disable_dinput_key |-> 0]

\* static void keyboard_callback (gsl::span<std::uint8_t, 256> const& keys),
\* before it calls handle_input_changed: whether the mode flips, and di.
keyboard_callback_level(keys) ==
    LET disable == keys[di.disable_dinput_key] # 0
        pressed == [di EXCEPT !.disable_dinput_key_pressed = disable]
    IN  [flip |-> ~disable,
         di |-> IF ~disable
                THEN [pressed EXCEPT !.mouse.disabled = ~@, !.keyboard.disabled = ~@]
                ELSE pressed]

keyboard_callback_mouse_only(keys) ==
    LET disable == keys[di.disable_dinput_key] # 0
        flip == di.disable_dinput_key_pressed /\ ~disable
        pressed == [di EXCEPT !.disable_dinput_key_pressed = disable]
    IN  [flip |-> flip,
         di |-> IF flip THEN [pressed EXCEPT !.mouse.disabled = ~@] ELSE pressed]

keyboard_callback(keys) ==
    LET disable == keys[di.disable_dinput_key] # 0
        flip == di.disable_dinput_key_pressed /\ ~disable
        pressed == [di EXCEPT !.disable_dinput_key_pressed = disable]
    IN  [flip |-> flip,
         di |-> IF flip
                THEN [pressed EXCEPT !.mouse.disabled = ~@, !.keyboard.disabled = ~@]
                ELSE pressed]

\* The cooperative level flags of DirectInput.
Exclusivity == {"DISCL_EXCLUSIVE", "DISCL_NONEXCLUSIVE"}
Grounds == {"DISCL_FOREGROUND", "DISCL_BACKGROUND"}

\* The wrapped device takes a cooperative level with a window, one of the
\* exclusive and non-exclusive flags and one of foreground and background.
cooperative(hwnd, dwFlags) ==
    /\ hwnd # NULL
    /\ Cardinality(dwFlags \cap Exclusivity) = 1
    /\ Cardinality(dwFlags \cap Grounds) = 1

\* input_device::SetCooperativeLevel (HWND hwnd, DWORD dwFlags): di after it.
SetCooperativeLevel_di(d, device, hwnd, dwFlags) ==
    IF cooperative(hwnd, dwFlags)
    THEN [d EXCEPT !.window = hwnd, ![device].cooperative_flags = dwFlags]
    ELSE d

exclusive_flags_added(flags, enabled) ==
    flags \cup {IF enabled THEN "DISCL_EXCLUSIVE" ELSE "DISCL_NONEXCLUSIVE"}

\* flags = cooperative_flags & ~(DISCL_EXCLUSIVE | DISCL_NONEXCLUSIVE);
\* flags |= enabled ? DISCL_EXCLUSIVE : DISCL_NONEXCLUSIVE;
exclusive_flags(flags, enabled) ==
    (flags \ Exclusivity)
        \cup {IF enabled THEN "DISCL_EXCLUSIVE" ELSE "DISCL_NONEXCLUSIVE"}

\* void dinput_exclusive_mode (int keyboard, int mouse), after its Expects:
\* di after the calls made through the two proxies.
dinput_exclusive_mode(d, keyboard, mouse) ==
    LET k == SetCooperativeLevel_di(d, "keyboard", d.window,
                 exclusive_flags(d.keyboard.cooperative_flags, keyboard))
    IN  SetCooperativeLevel_di(k, "mouse", k.window,
            exclusive_flags(k.mouse.cooperative_flags, mouse))

\* The calls dinput_exclusive_mode makes through the two proxies, in the
\* order it makes them, d being di when it is entered.
device_calls(d, device, enabled) ==
    <<[to |-> device, call |-> "Unacquire", args |-> << >>],
      [to |-> device, call |-> "SetCooperativeLevel",
       args |-> <<d.window, exclusive_flags(d[device].cooperative_flags, enabled)>>],
      [to |-> device, call |-> "SetDataFormat", args |-> <<d[device].data_format>>],
      [to |-> device, call |-> "Acquire", args |-> << >>]>>

dinput_exclusive_mode_mouse_first(d, keyboard, mouse) ==
    device_calls(d, "mouse", mouse) \o device_calls(d, "keyboard", keyboard)

dinput_exclusive_mode_calls(d, keyboard, mouse) ==
    device_calls(d, "keyboard", keyboard) \o device_calls(d, "mouse", mouse)

\* void handle_input_changed (): the calls of dinput_exclusive_mode with the
\* negations of the two flags of d.
handle_input_changed_calls(d) ==
    dinput_exclusive_mode_calls(d, ~d.keyboard.disabled, ~d.mouse.disabled)

MaxRefs == 2         \* references the host holds on one wrapped object

\* The objects input.cpp wraps: the two devices and the factory.
Wrapped == Devices \cup {"factory"}

\* A proxy as new input_device (orig) or new direct_input (orig) makes it:
\* alive, the wrapped object with the one reference its creation gave.
created == [refs |-> 1, alive |-> TRUE]

\* No proxy made yet but the factory's, which input_create made.
com_init ==
    [o \in Wrapped |-> IF o = "factory" THEN created
                       ELSE [refs |-> 0, alive |-> FALSE]]

com_ready == [o \in Wrapped |-> created]

\* STDMETHOD_ (ULONG, AddRef) () { return p->AddRef (); }
AddRef_com(c) == [c EXCEPT !.refs = @ + 1]

\* STDMETHOD_ (ULONG, Release) (): auto r = p->Release ();
\* if (!r) delete this; return r;
Release_com(c) == [refs |-> c.refs - 1, alive |-> c.refs - 1 # 0]

Release_steps(c) ==
    <<"p->Release">> \o (IF c.refs - 1 = 0 THEN <<"delete this">> ELSE << >>)

\* The host makes its devices through the factory proxy, which exists once
\* DirectInput8Create is detoured.  rguid names the keyboard, the mouse or
\* another device and hr is what the wrapped factory returns.
CreateDevice ==
    /\ idle /\ focus = "input"
    /\ input_create_orig /\ com.factory.alive
    /\ \E rguid \in Devices \cup {"other"}, hr \in {"DI_OK", "DIERR_DEVICENOTREG"} :
          /\ rguid \in Devices => di[rguid].input = NULL
          /\ di' = IF rguid \in Devices /\ hr = "DI_OK"
                   THEN [di EXCEPT ![rguid].input = Proxy(rguid)]
                   ELSE di
          /\ com' = IF rguid \in Devices /\ hr = "DI_OK"
                    THEN [com EXCEPT ![rguid] = created]
                    ELSE com
          /\ ret' = [op |-> "CreateDevice", rguid |-> rguid, result |-> hr]
    /\ UNCHANGED <<lifecycleVars, dx, listenerVars, keyboard_queue, last_sample,
                   frame, fault, focus>>

\* The data formats the host uses: the addresses of c_dfDIKeyboard and of
\* c_dfDIMouse2.
DataFormat(device) == IF device = "keyboard" THEN 1 ELSE 2

\* input_device::SetDataFormat (LPCDIDATAFORMAT lpdf), called by the host.
SetDataFormat ==
    /\ idle /\ focus = "input"
    /\ \E device \in Devices :
          /\ di[device].input # NULL
          /\ di' = [di EXCEPT ![device].data_format = DataFormat(device)]
          /\ ret' = [op |-> "SetDataFormat", device |-> device]
    /\ UNCHANGED <<lifecycleVars, dx, listenerVars, keyboard_queue, last_sample, com,
                   frame, fault, focus>>

\* The cooperative level the host asks for.
HostFlags == {{"DISCL_FOREGROUND", "DISCL_EXCLUSIVE"}}

\* input_device::SetCooperativeLevel, called by the host for its window.
SetCooperativeLevel ==
    /\ idle /\ focus = "input"
    /\ \E device \in Devices, dwFlags \in HostFlags :
          /\ di[device].input # NULL
          /\ di' = SetCooperativeLevel_di(di, device, visible_window, dwFlags)
          /\ ret' = [op |-> "SetCooperativeLevel", device |-> device,
                     hwnd |-> visible_window, dwFlags |-> dwFlags,
                     result |-> IF cooperative(visible_window, dwFlags)
                                THEN "DI_OK" ELSE "E_HANDLE"]
    /\ UNCHANGED <<lifecycleVars, dx, listenerVars, keyboard_queue, last_sample, com,
                   frame, fault, focus>>

\* The keyboard gets an event into the buffer of the wrapped device, which
\* buffers whatever di.keyboard.disabled says; the event is marked with the
\* flag as it is then.
key_event ==
    /\ idle /\ focus = "input"
    /\ di.keyboard.input # NULL
    /\ Len(keyboard_queue) < MaxQueue
    /\ keyboard_queue' = Append(keyboard_queue, [disabled |-> di.keyboard.disabled])
    /\ ret' = [op |-> "key_event"]
    /\ UNCHANGED <<lifecycleVars, dx, listenerVars, di, last_sample, com, frame, fault,
                   focus>>

\* What the wrapped GetDeviceState and GetDeviceData return.
InputResults == {"DI_OK", "DIERR_INPUTLOST"}

\* DirectInput gives the state of a device only once it has a data format
\* and a cooperative level (it cannot be acquired before).
acquirable(device) ==
    di[device].data_format # NULL /\ di[device].cooperative_flags # {}

\* if (di.keyboard.disabled) std::fill_n (callee, cbData, 0), and the same
\* for the mouse: what the caller's buffer holds when the call returns, by
\* d, the value of di after the callback returned.
GetDeviceState_entry(d, device, data, disabled) ==
    IF disabled THEN zero(device) ELSE data

GetDeviceState_data(d, device, data, disabled) ==
    IF d[device].disabled THEN zero(device) ELSE data

\* What a call of GetDeviceState (f) returns after its callback returned.
GetDeviceState_result(f, d) ==
    LET a == f.args
    IN  [op |-> "GetDeviceState", device |-> a.device, wrapped |-> a.hres,
         result |-> a.hres, returned |-> TRUE,
         observed |-> IF a.hres = "DI_OK" THEN <<a.data>> ELSE << >>,
         data |-> IF a.hres = "DI_OK"
                  THEN GetDeviceState_data(d, a.device, a.data, a.disabled)
                  ELSE a.data,
         flipped |-> f.enabled,
         log |-> f.log, touched |-> f.touched, size |-> f.end]

\* What a call of GetDeviceData of the keyboard proxy (f) returns after
\* keyboard_callback returned: a disabled keyboard has the buffer of the
\* wrapped device read out with no destination and reports no item, an
\* enabled one has the call passed on.  hres is what the wrapped
\* GetDeviceData returns and queue what it has buffered; items is *pdwInOut
\* and rgdod the events the caller gets.
GetDeviceData_result(f, d, hres, queue) ==
    [op |-> "GetDeviceData", device |-> "keyboard", wrapped |-> f.args.hres,
     result |-> hres, returned |-> TRUE,
     observed |-> IF f.args.hres = "DI_OK" THEN <<f.args.data>> ELSE << >>,
     drained |-> d.keyboard.disabled,
     items |-> IF d.keyboard.disabled \/ hres # "DI_OK" THEN 0 ELSE Len(queue),
     rgdod |-> IF d.keyboard.disabled \/ hres # "DI_OK" THEN << >> ELSE queue,
     flipped |-> f.enabled, log |-> f.log]

\* The wrapped GetDeviceData empties the buffer when it succeeds.
GetDeviceData_queue(hres, queue) == IF hres = "DI_OK" THEN << >> ELSE queue

poll_result(f, d, hres) ==
    IF f.op = "GetDeviceState" THEN GetDeviceState_result(f, d)
    ELSE GetDeviceData_result(f, d, hres, keyboard_queue)

poll_queue(f, hres) ==
    IF f.op = "GetDeviceState" THEN keyboard_queue
    ELSE GetDeviceData_queue(hres, keyboard_queue)

\* How the calls of dinput_exclusive_mode through di.keyboard.input and
\* di.mouse.input go, cb being what keyboard_callback made: a call through
\* the pointer to a proxy that has deleted itself is undefined, it faults or
\* runs on the stale object.
proxy_uses(cb) ==
    IF /\ cb.flip
       /\ cb.di.keyboard.input # NULL /\ cb.di.mouse.input # NULL
       /\ ~(com.keyboard.alive /\ com.mouse.alive)
    THEN {"fault", "stale"}
    ELSE {"live"}

\* A keyboard poll (op is GetDeviceState or GetDeviceData): the wrapped
\* GetDeviceState returns hres and fills keys; keyboard_callback; at a flip
\* handle_input_changed, that is dinput_exclusive_mode with its
\* Expects (di.keyboard.input && di.mouse.input) and the loop over
\* di.disable_listeners.  The poll runs to the first listener it calls, or
\* to its return when it calls none; hres2 is what the wrapped GetDeviceData
\* returns.
poll_keyboard(op, hres, keys, hres2) ==
    LET cb == keyboard_callback(keys)
        args == [device |-> "keyboard", hres |-> hres, data |-> keys,
                 disabled |-> di.keyboard.disabled]
    IN
    IF hres # "DI_OK" THEN
        /\ ret' = poll_result(enter(op, FALSE, args), di, hres2)
        /\ keyboard_queue' = poll_queue(enter(op, FALSE, args), hres2)
        /\ UNCHANGED <<di, last_sample, fault, frame>>
    ELSE
        /\ last_sample' = <<[key |-> di.disable_dinput_key,
                             down |-> keys[di.disable_dinput_key] # 0]>>
        /\ \E use \in proxy_uses(cb) :
           IF cb.flip /\ (cb.di.keyboard.input = NULL \/ cb.di.mouse.input = NULL
                          \/ use = "fault")
           THEN /\ di' = cb.di
                /\ fault' = TRUE
                /\ ret' = [op |-> op, device |-> "keyboard", wrapped |-> hres,
                           observed |-> <<keys>>, flipped |-> TRUE,
                           returned |-> FALSE]
                /\ UNCHANGED <<frame, keyboard_queue>>
           ELSE LET d == IF cb.flip
                         THEN dinput_exclusive_mode(cb.di, ~cb.di.keyboard.disabled,
                                                    ~cb.di.mouse.disabled)
                         ELSE cb.di
                    f == enter(op, cb.flip, args)
                    calls == IF cb.flip THEN handle_input_changed_calls(cb.di)
                             ELSE << >>
                IN  /\ di' = d
                    /\ IF cb.flip /\ disable_listeners.size < 0 THEN
                           /\ fault' = TRUE
                           /\ ret' = [op |-> "enter", calls |-> calls]
                           /\ frame' = f
                           /\ UNCHANGED keyboard_queue
                       ELSE IF f.end > 0 THEN
                           /\ fault' = FALSE
                           /\ ret' = [op |-> "enter", calls |-> calls]
                           /\ frame' = f
                           /\ UNCHANGED keyboard_queue
                       ELSE
                           /\ fault' = FALSE
                           /\ ret' = [calls |-> calls] @@ poll_result(f, d, hres2)
                           /\ keyboard_queue' = poll_queue(f, hres2)
                           /\ UNCHANGED frame

\* input_device::GetDeviceState (DWORD cbData, LPVOID lpvData)
GetDeviceState ==
    /\ idle /\ focus \in {"mode", "input", "proxy"}
    /\ \E device \in Devices, hres \in InputResults :
          /\ di[device].input # NULL
          /\ com[device].alive
          /\ hres = "DI_OK" => acquirable(device)
          /\ IF device = "keyboard"
             THEN \E keys \in KeyStates :
                     \* a call that fails fills nothing
                     /\ hres # "DI_OK" => keys = zero("keyboard")
                     /\ poll_keyboard("GetDeviceState", hres, keys, hres)
             ELSE \E state \in MouseStates :
                     /\ hres # "DI_OK" => state = zero("mouse")
                     /\ ret' = GetDeviceState_result(
                                   enter("GetDeviceState", FALSE,
                                      [device |-> "mouse", hres |-> hres,
                                       data |-> state,
                                       disabled |-> di.mouse.disabled]), di)
                     /\ UNCHANGED <<di, last_sample, fault, frame, keyboard_queue>>
    /\ UNCHANGED <<lifecycleVars, dx, listenerVars, com, focus>>

\* input_device::GetDeviceData (DWORD cbObjectData, LPDIDEVICEOBJECTDATA
\* rgdod, LPDWORD pdwInOut, DWORD dwFlags) of the keyboard proxy
GetDeviceData ==
    /\ idle /\ focus \in {"mode", "input"}
    /\ di.keyboard.input # NULL /\ com.keyboard.alive
    /\ \E hres \in InputResults, keys \in KeyStates, hres2 \in InputResults :
          /\ hres = "DI_OK" => acquirable("keyboard")
          /\ hres2 = "DI_OK" => acquirable("keyboard")
          /\ hres # "DI_OK" => keys = zero("keyboard")
          /\ poll_keyboard("GetDeviceData", hres, keys, hres2)
    /\ UNCHANGED <<lifecycleVars, dx, listenerVars, com, focus>>

\* A keyboard poll from the return of its last listener on.
poll_return ==
    /\ ~fault /\ frame.op \in {"GetDeviceState", "GetDeviceData"}
    /\ frame.i > frame.end
    /\ \E hres2 \in InputResults :
          /\ hres2 = "DI_OK" => acquirable("keyboard")
          /\ ret' = poll_result(frame, di, hres2)
          /\ keyboard_queue' = poll_queue(frame, hres2)
    /\ leave
    /\ UNCHANGED <<lifecycleVars, dx, di, last_sample, com, fault, focus>>

\* bool keyboard_enable (bool* optional): the flag it leaves and the value it
\* returns.
keyboard_enable_exchange(optional) ==
    [disabled |-> IF optional = << >> THEN di.keyboard.disabled ELSE ~optional[1],
     result |-> ~di.keyboard.disabled]

keyboard_enable_reapplies(optional) ==
    LET d == [di EXCEPT !.keyboard.disabled = keyboard_enable_exchange(optional).disabled]
    IN  dinput_exclusive_mode(d, ~d.keyboard.disabled, ~d.mouse.disabled)

\* di after keyboard_enable: the flag of the keyboard and nothing else.
keyboard_enable_di(optional) ==
    [di EXCEPT !.keyboard.disabled = keyboard_enable_exchange(optional).disabled]

keyboard_enable ==
    /\ callable /\ focus \in {"input", "api"}
    /\ \E optional \in Optional :
          /\ di' = keyboard_enable_di(optional)
          /\ ret' = [op |-> "keyboard_enable", optional |-> optional,
                     result |-> keyboard_enable_exchange(optional).result]
    /\ frame' = called
    /\ UNCHANGED <<lifecycleVars, dx, listenerVars, keyboard_queue, last_sample, com,
                   fault, focus>>

\* bool mouse_enable (bool* optional)
mouse_enable_exchange(optional) ==
    [disabled |-> IF optional = << >> THEN di.mouse.disabled ELSE ~optional[1],
     result |-> ~di.mouse.disabled]

mouse_enable ==
    /\ callable /\ focus \in {"input", "api"}
    /\ \E optional \in Optional :
          /\ di' = [di EXCEPT !.mouse.disabled = mouse_enable_exchange(optional).disabled]
          /\ ret' = [op |-> "mouse_enable", optional |-> optional,
                     result |-> mouse_enable_exchange(optional).result]
    /\ frame' = called
    /\ UNCHANGED <<lifecycleVars, dx, listenerVars, keyboard_queue, last_sample, com,
                   fault, focus>>

\* unsigned dinput_disable_key (unsigned* optional), with its
\* Expects (!optional || *optional < 256): NumKeys stands for a scan code
\* that is out of range.
dinput_disable_key ==
    /\ callable /\ focus = "input"
    /\ \E optional \in {<< >>} \cup {<<k>> : k \in 0..NumKeys} :
          IF optional # << >> /\ optional[1] \notin Keys THEN
              /\ fault' = TRUE
              /\ ret' = [op |-> "dinput_disable_key", optional |-> optional,
                         result |-> di.disable_dinput_key]
              /\ UNCHANGED di
          ELSE
              /\ di' = [di EXCEPT !.disable_dinput_key =
                           IF optional = << >> THEN @ ELSE optional[1]]
              /\ ret' = [op |-> "dinput_disable_key", optional |-> optional,
                         result |-> di.disable_dinput_key]
              /\ fault' = fault
    /\ frame' = called
    /\ UNCHANGED <<lifecycleVars, dx, listenerVars, keyboard_queue, last_sample, com,
                   focus>>


\* input_device::AddRef and direct_input::AddRef, called by the host on a
\* proxy it holds.
AddRef ==
    /\ idle /\ focus = "proxy"
    /\ \E o \in Wrapped :
          /\ com[o].alive /\ com[o].refs < MaxRefs
          /\ com' = [com EXCEPT ![o] = AddRef_com(@)]
          /\ ret' = [op |-> "AddRef", obj |-> o, result |-> AddRef_com(com[o]).refs]
    /\ UNCHANGED <<lifecycleVars, dx, listenerVars, di, keyboard_queue, last_sample,
                   frame, fault, focus>>

\* input_device::Release and direct_input::Release, called by the host on a
\* proxy it holds.
Release ==
    /\ idle /\ focus = "proxy"
    /\ \E o \in Wrapped :
          /\ com[o].alive
          /\ com' = [com EXCEPT ![o] = Release_com(@)]
          /\ ret' = [op |-> "Release", obj |-> o, result |-> Release_com(com[o]).refs,
                     steps |-> Release_steps(com[o])]
    /\ UNCHANGED <<lifecycleVars, dx, listenerVars, di, keyboard_queue, last_sample,
                   frame, fault, focus>>
(***************************************************************************)
(* sse-gui.cpp: the version and the last error of the public interface     *)
(***************************************************************************)
MaxLen == 2          \* bytes of the longest message
NumBytes == 2        \* distinct byte values a message is made of
MaxVersion == 1      \* largest major and patch number of a build

\* sse-gui.h: #define SSGUI_API_VERSION (1)
SSGUI_API_VERSION == 1

\* The build's -DSSGUI_TIMESTAMP="...", a string literal.
SSGUI_TIMESTAMP == "2019-04-15T08:37:11.419416+00:00"

\* A pointer argument is a sequence of at most one element: << >> is nullptr,
\* <<v>> points at an object holding v.  A char buffer is a sequence of
\* bytes, so a char* is << >> or <<buffer>>.
nullptr == << >>

\* The content of file VERSION, "api,major,patch", that ssgui_version
\* includes as the initializer of ver.  The static_assert of ssgui_version
\* fixes ver[0]; the file names a released version, so its numbers are the
\* naturals of a dotted version.
VERSION ==
    {<<SSGUI_API_VERSION, maj, imp>> : maj \in 0..MaxVersion, imp \in 0..MaxVersion}

\* ssgui_version with the compiled-in ver: what the four slots hold after
\* the call.
ssgui_version_major_only(ver, api, maj, imp, build) ==
    [api |-> api,
     maj |-> IF maj # nullptr THEN <<ver[2]>> ELSE maj,
     imp |-> imp,
     build |-> build]

ssgui_version(ver, api, maj, imp, build) ==
    [api |-> IF api # nullptr THEN <<ver[1]>> ELSE api,
     maj |-> IF maj # nullptr THEN <<ver[2]>> ELSE maj,
     imp |-> IF imp # nullptr THEN <<ver[3]>> ELSE imp,
     build |-> IF build # nullptr THEN <<(<<SSGUI_TIMESTAMP>>)>> ELSE build]

\* The slots of a caller: null, or an int the caller set to -1 and a
\* const char* the caller set to nullptr (as the test of the version does).
IntSlots == {nullptr, <<0 - 1>>}
BuildSlots == {nullptr, <<nullptr>>}

version ==
    /\ ~fault
    /\ \E ver \in VERSION, api \in IntSlots, maj \in IntSlots, imp \in IntSlots,
          build \in BuildSlots :
           ret' = [op |-> "ssgui_version", ver |-> ver,
                   in |-> [api |-> api, maj |-> maj, imp |-> imp, build |-> build],
                   out |-> ssgui_version(ver, api, maj, imp, build)]
    /\ UNCHANGED <<lifecycleVars, dx, hookVars>>

\* The texts: every sequence of at most MaxLen bytes, none of them NUL.
Texts == UNION {[1..n -> 1..NumBytes] : n \in 0..MaxLen}

Min(a, b) == IF a < b THEN a ELSE b

\* A buffer of c bytes the caller has not yet written to; -1 stands for
\* what the bytes held before the call.
buffer(c) == [i \in 1..c |-> 0 - 1]

\* std::copy_n and the store of one byte, on a buffer.  A write behind the
\* end of the buffer is not made here: copy_string counts it in overrun.
copy_n(src, count, dst) ==
    [i \in 1..Len(dst) |-> IF i <= count THEN src[i] ELSE dst[i]]
put(dst, i, b) ==
    [j \in 1..Len(dst) |-> IF j = i THEN b ELSE dst[j]]

\* static void copy_string (src, n, dst): *n and the buffer after the call,
\* and how many bytes the call wrote behind the end of the buffer.
copy_string(src, n, dst) ==
    IF n = nullptr THEN [n |-> n, dst |-> dst, overrun |-> 0]
    ELSE LET count == Min(n[1] - 1, Len(src))
             written == IF n[1] > 0 THEN count + 1 ELSE 1
         IN  [n |-> <<Len(src) + 1>>,
              dst |-> IF dst = nullptr THEN dst
                      ELSE IF n[1] > 0
                           THEN <<put(copy_n(src, count, dst[1]), count + 1, 0)>>
                           ELSE <<put(dst[1], 1, 0)>>,
              overrun |-> IF dst # nullptr /\ written > Len(dst[1])
                          THEN written - Len(dst[1]) ELSE 0]

\* ::GetLastError () of the calling thread.
SystemErrors == {"ERROR_SUCCESS", "ERROR_ACCESS_DENIED"}

\* ssgui_last_error (size_t* size, char* message): err is what GetLastError
\* returns, m the text FormatMessage gives for it and converted whether
\* utf16_to_utf8 succeeds on it.  null says that the call writes through a
\* null size.
ssgui_last_error(size, message, err, m, converted) ==
    IF Len(ssegui_error) > 0
    THEN [null |-> FALSE] @@ copy_string(ssegui_error, size, message)
    ELSE IF err = "ERROR_SUCCESS"
         THEN [null |-> size = nullptr,
               n |-> IF size = nullptr THEN size ELSE <<0>>,
               dst |-> IF message = nullptr THEN message ELSE <<put(message[1], 1, 0)>>,
               overrun |-> IF message # nullptr /\ Len(message[1]) = 0 THEN 1 ELSE 0]
         ELSE IF ~converted
              THEN [null |-> FALSE, n |-> size, dst |-> message, overrun |-> 0]
              ELSE [null |-> FALSE] @@ copy_string(m, size, message)

\* The arguments of a caller: a null size with a null message, or a size
\* with no message or with a message of as many bytes as size says.
SizeArgs == {nullptr} \cup {<<c>> : c \in 0..MaxLen + 2}
MessageArgs(size) ==
    {nullptr} \cup (IF size = nullptr THEN {} ELSE {<<buffer(size[1])>>})

\* A call of ssgui_last_error.  A write through a null size ends the
\* process; a write behind the end of the buffer ends it or lands in the
\* memory behind the buffer.
last_error ==
    /\ ~fault
    /\ \E size \in SizeArgs, err \in SystemErrors, m \in Texts, converted \in BOOLEAN :
         \E message \in MessageArgs(size) :
           LET out == ssgui_last_error(size, message, err, m, converted) IN
           /\ Len(ssegui_error) > 0 =>
                  (err = "ERROR_SUCCESS" /\ m = << >> /\ converted)
           /\ err = "ERROR_SUCCESS" => (m = << >> /\ converted)
           /\ ~converted => m = << >>
           /\ fault' \in IF out.null THEN {TRUE}
                         ELSE IF out.overrun > 0 THEN BOOLEAN ELSE {FALSE}
           /\ ret' = [op |-> "ssgui_last_error", error |-> ssegui_error,
                      err |-> err, m |-> m, converted |-> converted,
                      size |-> size, message |-> message, out |-> out]
    /\ UNCHANGED <<lifecycleVars, dx, listenerVars, inputVars, frame, focus>>

(***************************************************************************)
(* src/render.cpp: setup_imgui on the thread of the GUI and create_device  *)
(* on the threads of the host, with dx.device_mutex.  Each step is one     *)
(* access to dx.device_history or to the mutex; pc.create is "pushing"     *)
(* while push_back is modifying the vector.                                *)
(***************************************************************************)

\* create_device up to the test of the record: the original is called and
\* the record r read; a complete record goes on to the lock.
create_device_enter ==
    /\ focus = "threads" /\ pc.create = "idle"
    /\ dx.create_device_orig
    /\ Len(dx.device_history) < MaxHistory
    /\ \E w \in Windows, o \in CreateOutcomes :
          LET k == Len(dx.device_history) + 1
              r == device_record(IF "window" \in o.missing THEN NULL ELSE w,
                                 IF "chain" \in o.missing THEN NULL ELSE k,
                                 IF "device" \in o.missing THEN NULL ELSE k,
                                 IF "context" \in o.missing THEN NULL ELSE k)
              complete == create_device_history(r.window, r.chain, r.device, r.context)
                              # dx.device_history
          IN  /\ o.missing # {} => w = 1
              /\ pc' = IF complete THEN [pc EXCEPT !.create = "lock", !.r = <<r>>]
                       ELSE pc
              /\ ret' = [op |-> "create_device", step |-> "enter", r |-> r,
                         result |-> o.hres]
    /\ UNCHANGED <<sseh, sseh_listener, dispatched, ssegui_error, wndproc,
                   present_detour, cursor_clip, visible_window, titled_window,
                   input_create_orig, device_mutex, dx, hookVars>>

\* std::lock_guard<std::mutex> lock (dx.device_mutex) of create_device
create_device_lock ==
    /\ focus = "threads" /\ pc.create = "lock"
    /\ device_mutex = "none"
    /\ device_mutex' = "create"
    /\ pc' = [pc EXCEPT !.create = "push"]
    /\ ret' = [op |-> "create_device", step |-> "lock"]
    /\ UNCHANGED <<sseh, sseh_listener, dispatched, ssegui_error, wndproc,
                   present_detour, cursor_clip, visible_window, titled_window,
                   input_create_orig, dx, hookVars>>

\* dx.device_history.push_back (r) begins: the vector is being modified.
create_device_push_back ==
    /\ focus = "threads" /\ pc.create = "push"
    /\ pc' = [pc EXCEPT !.create = "pushing"]
    /\ ret' = [op |-> "create_device", step |-> "push_back",
               locked |-> device_mutex = "create"]
    /\ UNCHANGED <<sseh, sseh_listener, dispatched, ssegui_error, wndproc,
                   present_detour, cursor_clip, visible_window, titled_window,
                   input_create_orig, device_mutex, dx, hookVars>>

\* push_back returns and the lock_guard releases the mutex.
create_device_unlock ==
    /\ focus = "threads" /\ pc.create = "pushing"
    /\ dx' = [dx EXCEPT !.device_history = Append(@, pc.r[1])]
    /\ device_mutex' = "none"
    /\ pc' = [pc EXCEPT !.create = "idle", !.r = << >>]
    /\ ret' = [op |-> "create_device", step |-> "unlock"]
    /\ UNCHANGED <<sseh, sseh_listener, dispatched, ssegui_error, wndproc,
                   present_detour, cursor_clip, visible_window, titled_window,
                   input_create_orig, hookVars>>

\* if (dx.device_history.size ()): the read of the size, made before the
\* lock is taken.  A read while push_back runs is a data race and gives the
\* size before or after the append.
setup_imgui_size ==
    /\ focus = "threads" /\ pc.setup = "idle"
    /\ \E size \in {Len(dx.device_history)}
                     \cup (IF pc.create = "pushing"
                           THEN {Len(dx.device_history) + 1} ELSE {}) :
          /\ pc' = [pc EXCEPT !.setup = IF size = 0 THEN "idle" ELSE "lock"]
          /\ ssegui_error' = IF size = 0 THEN "Unable to find Skyrim DirectX" ELSE ""
          /\ ret' = [op |-> "setup_imgui", step |-> "size", size |-> size,
                     locked |-> device_mutex = "setup",
                     modifying |-> pc.create = "pushing"]
    /\ UNCHANGED <<sseh, sseh_listener, dispatched, wndproc,
                   present_detour, cursor_clip, visible_window, titled_window,
                   input_create_orig, device_mutex, dx, hookVars>>

\* std::lock_guard<std::mutex> lock (dx.device_mutex) of setup_imgui
setup_imgui_lock ==
    /\ focus = "threads" /\ pc.setup = "lock"
    /\ device_mutex = "none"
    /\ device_mutex' = "setup"
    /\ pc' = [pc EXCEPT !.setup = "scan"]
    /\ ret' = [op |-> "setup_imgui", step |-> "lock"]
    /\ UNCHANGED <<sseh, sseh_listener, dispatched, ssegui_error, wndproc,
                   present_detour, cursor_clip, visible_window, titled_window,
                   input_create_orig, dx, hookVars>>

\* for (auto const& r: dx.device_history) ...: the scan, to its break or
\* to its end, and the release of the mutex at the end of the block.
setup_imgui_scan ==
    /\ focus = "threads" /\ pc.setup = "scan"
    /\ LET i == select_device(dx.device_history, visible_window, titled_window)
           r == dx.device_history[i]
       IN  /\ dx' = IF i = 0 THEN dx
                    ELSE [dx EXCEPT !.window = r.window, !.chain = r.chain,
                                    !.context = r.context, !.device = r.device]
           /\ ssegui_error' = IF i = 0 THEN "Unable to find Skyrim DirectX" ELSE ""
           /\ ret' = [op |-> "setup_imgui", step |-> "scan", selected |-> i,
                      locked |-> device_mutex = "setup",
                      modifying |-> pc.create = "pushing"]
    /\ device_mutex' = "none"
    /\ pc' = [pc EXCEPT !.setup = "idle"]
    /\ UNCHANGED <<sseh, sseh_listener, dispatched, wndproc,
                   present_detour, cursor_clip, visible_window, titled_window,
                   input_create_orig, hookVars>>

(***************************************************************************)
(* The system.                                                             *)
(***************************************************************************)
hook_init ==
    /\ render_listeners = vector_init
    /\ message_listeners = vector_init
    /\ disable_listeners = vector_init
    /\ registered = [kind \in Kinds |-> << >>]
    /\ keyboard_queue = << >>
    /\ last_sample = << >>
    /\ frame = frame_idle
    /\ fault = FALSE
    /\ device_mutex = "none"
    /\ pc = pc_init
    /\ ret = [op |-> "none"]

\* The plugin as SKSE loads it.
Init ==
    /\ sseh = FALSE
    /\ sseh_listener = FALSE
    /\ dispatched = 0
    /\ dx = dx_init
    /\ input_create_orig = FALSE
    /\ ssegui_error = ""
    /\ wndproc = [w \in Windows |-> GameProc(w)]
    /\ present_detour = [target |-> NULL, applied |-> FALSE]
    /\ cursor_clip = NULL
    /\ visible_window \in {NULL} \cup Windows
    \* the window titled "Skyrim Special Edition", when there is one, is window 2
    /\ titled_window \in {NULL, 2}
    /\ di = di_init
    /\ com = com_init
    /\ focus = "setup"
    /\ hook_init

\* The device history, the set-up and the SKSE life cycle.
RenderNext ==
    \/ handle_skse_message
    \/ handle_sseh_message
    \/ create_device

RenderSpec == Init /\ [][RenderNext]_vars

\* The plugin after the life cycle ran once with success: the interface of
\* SSEH was accepted and both detours made, the host made one device for its
\* window 1, and the set-up on the input-loaded message bound it.
hooked ==
    /\ sseh = TRUE
    /\ sseh_listener = TRUE
    /\ dispatched = 1
    /\ dx = [device |-> 1, context |-> 1, chain |-> 1, window |-> 1,
             window_proc_orig |-> GameProc(1),
             chain_present_orig |-> d3d11present(1),
             create_device_orig |-> TRUE,
             device_history |-> <<device_record(1, 1, 1, 1)>>,
             enable_rendering |-> TRUE, enable_messaging |-> TRUE]
    /\ input_create_orig = TRUE
    /\ ssegui_error = ""
    /\ wndproc = [w \in Windows |-> IF w = 1 THEN WindowProcHook ELSE GameProc(w)]
    /\ present_detour = [target |-> d3d11present(1), applied |-> TRUE]
    /\ cursor_clip = NULL
    /\ visible_window = 1
    /\ titled_window = 1

\* di after the host made and configured its keyboard and its mouse.
di_ready ==
    [window |-> 1,
     keyboard |-> [disabled |-> FALSE, input |-> Proxy("keyboard"),
                   data_format |-> DataFormat("keyboard"),
                   cooperative_flags |-> {"DISCL_FOREGROUND", "DISCL_EXCLUSIVE"}],
     mouse |-> [disabled |-> FALSE, input |-> Proxy("mouse"),
                data_format |-> DataFormat("mouse"),
                cooperative_flags |-> {"DISCL_FOREGROUND", "DISCL_EXCLUSIVE"}],
     disable_dinput_key_pressed |-> FALSE,
     disable_dinput_key |-> 0]

\* The host's devices and polls, the toggle key and the input accessors,
\* from the hooked plugin on.
InputInit ==
    /\ hooked
    /\ di = di_init
    /\ com = com_init
    /\ focus = "input"
    /\ hook_init

InputNext ==
    \/ CreateDevice
    \/ SetDataFormat
    \/ SetCooperativeLevel
    \/ key_event
    \/ GetDeviceState
    \/ GetDeviceData
    \/ keyboard_enable
    \/ mouse_enable
    \/ dinput_disable_key

InputSpec == InputInit /\ [][InputNext]_vars

\* The registries and the broadcasts, from the hooked plugin with both
\* devices on.  Each run exercises the registry of one kind.
ListenerInit ==
    /\ hooked
    /\ di = di_ready
    /\ com = com_ready
    /\ focus \in Kinds
    /\ hook_init

ListenerNext ==
    \/ update_render_listener
    \/ update_message_listener
    \/ update_disable_listener
    \/ chain_present
    \/ chain_present_return
    \/ window_proc
    \/ window_proc_return
    \/ GetDeviceState
    \/ poll_return
    \/ invoke_listener
    \/ enable_rendering
    \/ enable_messaging

ListenerSpec == ListenerInit /\ [][ListenerNext]_vars

\* The four enable accessors of the public interface, called by a plugin
\* on the hooked plugin with both devices on.
AccessorInit ==
    /\ hooked
    /\ di = di_ready
    /\ com = com_ready
    /\ focus = "api"
    /\ hook_init

AccessorNext ==
    \/ enable_rendering
    \/ enable_messaging
    \/ keyboard_enable
    \/ mouse_enable

AccessorSpec == AccessorInit /\ [][AccessorNext]_vars

\* The version and the last error of the public interface, called on the
\* plugin as SKSE loads it, whatever text an earlier failure left in
\* ssegui_error (here the bytes of the text).
ApiInit ==
    /\ sseh = FALSE
    /\ sseh_listener = FALSE
    /\ dispatched = 0
    /\ dx = dx_init
    /\ input_create_orig = FALSE
    /\ ssegui_error \in Texts
    /\ wndproc = [w \in Windows |-> GameProc(w)]
    /\ present_detour = [target |-> NULL, applied |-> FALSE]
    /\ cursor_clip = NULL
    /\ visible_window = NULL
    /\ titled_window = NULL
    /\ di = di_init
    /\ com = com_init
    /\ focus = "api"
    /\ hook_init

ApiNext ==
    \/ version
    \/ last_error

ApiSpec == ApiInit /\ [][ApiNext]_vars

\* The set-up thread and the device-creation thread, from the plugin that
\* has taken the interface of SSEH and made its two detours.
ThreadInit ==
    /\ sseh = TRUE
    /\ sseh_listener = TRUE
    /\ dispatched = 0
    /\ dx = [dx_init EXCEPT !.create_device_orig = TRUE]
    /\ input_create_orig = TRUE
    /\ ssegui_error = ""
    /\ wndproc = [w \in Windows |-> GameProc(w)]
    /\ present_detour = [target |-> NULL, applied |-> FALSE]
    /\ cursor_clip = NULL
    /\ visible_window \in {NULL} \cup Windows
    /\ titled_window \in {NULL, 2}
    /\ di = di_init
    /\ com = com_init
    /\ focus = "threads"
    /\ hook_init

ThreadNext ==
    \/ create_device_enter
    \/ create_device_lock
    \/ create_device_push_back
    \/ create_device_unlock
    \/ setup_imgui_size
    \/ setup_imgui_lock
    \/ setup_imgui_scan

ThreadSpec == ThreadInit /\ [][ThreadNext]_vars

\* The references of the host on the proxies, and the toggle, from the
\* hooked plugin with both devices on.
ProxyInit ==
    /\ hooked
    /\ di = di_ready
    /\ com = com_ready
    /\ focus = "proxy"
    /\ hook_init

ProxyNext ==
    \/ AddRef
    \/ Release
    \/ GetDeviceState

ProxySpec == ProxyInit /\ [][ProxyNext]_vars

\* The parameters a plugin reads while the host makes devices and the
\* set-up binds one, from the plugin that has taken the interface of SSEH.
ParameterInit ==
    /\ sseh = TRUE
    /\ sseh_listener = TRUE
    /\ dispatched = 0
    /\ dx = [dx_init EXCEPT !.create_device_orig = TRUE]
    /\ input_create_orig = TRUE
    /\ ssegui_error = ""
    /\ wndproc = [w \in Windows |-> GameProc(w)]
    /\ present_detour = [target |-> NULL, applied |-> FALSE]
    /\ cursor_clip = NULL
    /\ visible_window \in {NULL} \cup Windows
    /\ titled_window \in {NULL, 2}
    /\ di = di_init
    /\ com = com_init
    /\ focus = "parameter"
    /\ hook_init

ParameterNext ==
    \/ handle_skse_message
    \/ create_device
    \/ parameter

ParameterSpec == ParameterInit /\ [][ParameterNext]_vars

\* Everything together.
Next ==
    RenderNext \/ InputNext \/ ListenerNext \/ AccessorNext \/ ApiNext \/ ThreadNext
        \/ ProxyNext \/ ParameterNext

Spec == Init /\ [][Next]_vars

(***************************************************************************)
(* The properties.                                                         *)
(***************************************************************************)

\* The records of the device history that setup_window may bind: complete,
\* and of the window that both look-ups found.
bindable ==
    {i \in 1..Len(dx.device_history) :
        /\ visible_window # NULL /\ titled_window # NULL
        /\ dx.device_history[i].window = visible_window
        /\ dx.device_history[i].window = titled_window
        /\ dx.device_history[i].chain # NULL
        /\ dx.device_history[i].device # NULL
        /\ dx.device_history[i].context # NULL}

\* C1: a run of setup_window binds the first record, in the order of
\* insertion, whose window is the one both look-ups found and whose chain,
\* device and context are set, although later records match too; when no
\* record does, it fails with the "not found" error.
C1_BindsFirstMatch ==
    (ret.op = "handle_skse_message" /\ ret.setup) =>
        IF bindable = {}
        THEN /\ ~ret.result
             /\ ssegui_error = "Unable to find Skyrim DirectX"
        ELSE LET first == CHOOSE i \in bindable : \A j \in bindable : i <= j
             IN  /\ dx.window = dx.device_history[first].window
                 /\ dx.chain = dx.device_history[first].chain
                 /\ dx.device = dx.device_history[first].device
                 /\ dx.context = dx.device_history[first].context
                 /\ ssegui_error # "Unable to find Skyrim DirectX"

\* The history holds W1, W2 and W2 again, both look-ups find W2, and the
\* set-up bound the earlier record of W2.
C1_Witness ==
    /\ ret.op = "handle_skse_message" /\ ret.setup
    /\ Len(dx.device_history) = 3
    /\ dx.device_history[1].window = 1
    /\ dx.device_history[2].window = 2
    /\ dx.device_history[3].window = 2
    /\ visible_window = 2 /\ titled_window = 2
    /\ dx.chain = dx.device_history[2].chain
    /\ dx.chain # dx.device_history[3].chain

\* C2: every record of the device history has its window, chain, device and
\* context set, and a call of create_device whose record misses one leaves
\* the length of the history as it was.
C2_CompleteRecords ==
    /\ \A i \in 1..Len(dx.device_history) :
          /\ dx.device_history[i].window # NULL
          /\ dx.device_history[i].chain # NULL
          /\ dx.device_history[i].device # NULL
          /\ dx.device_history[i].context # NULL
    /\ (ret.op = "create_device" /\
          (ret.r.window = NULL \/ ret.r.chain = NULL \/ ret.r.device = NULL
             \/ ret.r.context = NULL))
         => Len(dx.device_history) = ret.size

\* A successful creation call without a swap chain after a recorded one.
C2_Witness ==
    /\ ret.op = "create_device"
    /\ ret.result = "S_OK"
    /\ ret.r.chain = NULL /\ ret.r.window # NULL
    /\ ret.size = 1
    /\ Len(dx.device_history) = 1

\* The scenario of C9: the history is a record of a window A and then one of
\* another window B, both look-ups find B, and the input-loaded message ran
\* the set-up.
C9_Scenario ==
    /\ ret.op = "handle_skse_message" /\ ret.setup
    /\ Len(dx.device_history) = 2
    /\ dx.device_history[1].window # dx.device_history[2].window
    /\ visible_window = dx.device_history[2].window
    /\ titled_window = dx.device_history[2].window

C9_Bound ==
    /\ ret.result
    /\ dx.window = dx.device_history[2].window
    /\ dx.chain = dx.device_history[2].chain
    /\ dx.device = dx.device_history[2].device
    /\ dx.context = dx.device_history[2].context
    /\ present_detour.applied
    /\ present_detour.target = Vtable(dx.device_history[2].chain, 8)
    /\ wndproc[dx.device_history[2].window] = WindowProcHook
    /\ dx.window_proc_orig = ret.prev_proc

\* C9, as the spec states it: in the scenario the set-up succeeds, binds the
\* record of B, detours the function in slot 8 of the virtual table of B's
\* swap chain, replaces the window procedure of B and saves the procedure B
\* had before.
C9_EndToEnd_Original == C9_Scenario => C9_Bound

\* C9, amended: the same, when the profile, detour and apply calls of the
\* detour provider succeed.
C9_EndToEnd == (C9_Scenario /\ ret.sseh = "ok") => C9_Bound

C9_Witness ==
    /\ C9_Scenario /\ ret.sseh = "ok"
    /\ dx.device_history[1].window = 1
    /\ dx.chain = 2
    /\ dx.window_proc_orig = GameProc(2)

\* The callbacks a registry holds.
listeners(kind) == elements(registry(kind))

NoDuplicates(s) == \A i, j \in 1..Len(s) : s[i] = s[j] => i = j

\* The registry of a kind after the step.
registry_after(kind) ==
    CASE kind = "render" -> render_listeners'
      [] kind = "message" -> message_listeners'
      [] OTHER -> disable_listeners'

\* C5: no callback is twice in a registry, and the registration of a
\* callback that a registry holds leaves the registry as it is.
C5_NoDuplicates ==
    [][\A kind \in Kinds :
         /\ NoDuplicates(elements(registry_after(kind)))
         /\ (/\ ret'.op = "update_listener" /\ ret'.kind = kind
             /\ ~ret'.remove
             /\ \E i \in 1..Len(listeners(kind)) :
                   listeners(kind)[i] = ret'.callback)
            => /\ elements(registry_after(kind)) = listeners(kind)
               /\ ~ret'.result]_vars

\* A callback was registered again in a registry of two, which it left so.
C5_Witness ==
    /\ ret.op = "update_listener" /\ ~ret.remove /\ ret.callback # NULL
    /\ ~ret.result
    /\ registry(ret.kind).size = 2
    /\ ~fault

invoked(log) == [i \in 1..Len(log) |-> log[i].f]

\* C7: a broadcast (a present call with rendering on, a window message with
\* messaging on, a mode change) whose listeners leave the registry alone
\* calls every registered callback once, in the order of registration.
C7_BroadcastOrder ==
    /\ (ret.op = "chain_present" /\ ret.enabled /\ ~ret.touched)
          => invoked(ret.log) = registered["render"]
    /\ (ret.op = "window_proc" /\ ret.enabled /\ ~ret.touched)
          => invoked(ret.log) = registered["message"]
    /\ (ret.op = "GetDeviceState" /\ ret.returned /\ ret.flipped /\ ~ret.touched)
          => invoked(ret.log) = registered["mode"]

\* A present call that the process did not survive: it ended in the loop
\* over the listeners (an update call without a callback ends the process by
\* contract, and is not counted).
present_cut_short ==
    /\ fault /\ frame.op = "chain_present"
    /\ ~(ret.op = "update_listener" /\ ret.callback = NULL)

\* C10: every call of the present wrapper calls the saved original once,
\* after every listener, with its own arguments, and returns what the
\* original returned, whatever the listeners do; it calls listeners only if
\* rendering is enabled.
C10_PresentForwards ==
    /\ ~present_cut_short
    /\ ret.op = "chain_present" =>
          LET n == Len(ret.calls)
          IN  /\ n >= 1
              /\ ret.calls[n] = [to |-> "original", f |-> dx.chain_present_orig,
                                 args |-> ret.args]
              /\ \A i \in 1..n - 1 : ret.calls[i].to = "listener"
              /\ ret.result = ret.orig
              /\ ~ret.enabled => n = 1

\* C3: a keyboard sample flips the mode, negating both disabled flags,
\* exactly when the toggle key is up in it and was down in the sample before,
\* whichever of GetDeviceState and GetDeviceData took the two samples; the
\* toggle key is the same for both.
C3_ToggleEdge ==
    [][(/\ ret'.op \in {"GetDeviceState", "GetDeviceData"}
        /\ ret'.device = "keyboard" /\ ret'.wrapped = "DI_OK"
        /\ last_sample # << >> => last_sample[1].key = di.disable_dinput_key)
       => /\ ret'.flipped <=>
                /\ last_sample # << >>
                /\ last_sample[1].down
                /\ ret'.observed[1][di.disable_dinput_key] = 0
          /\ di'.keyboard.disabled = (di.keyboard.disabled # ret'.flipped)
          /\ di'.mouse.disabled = (di.mouse.disabled # ret'.flipped)]_vars

\* The release of the toggle key, seen through GetDeviceData, flipped the
\* mode and the poll returned.
C3_Witness ==
    /\ ret.op = "GetDeviceData" /\ ret.wrapped = "DI_OK"
    /\ ret.flipped /\ ret.returned
    /\ di.keyboard.disabled /\ di.mouse.disabled

\* C4, as the spec states it: a GetDeviceState on a proxy whose device is
\* disabled when the call comes in, and whose wrapped call succeeds, returns
\* success and a buffer of zeros, and the callback saw the sample.
C4_Masked_Original ==
    [][(/\ ret'.op = "GetDeviceState" /\ ret'.returned
        /\ ret'.wrapped = "DI_OK"
        /\ di[ret'.device].disabled)
       => /\ ret'.result = "DI_OK"
          /\ ret'.data = zero(ret'.device)
          /\ ret'.observed # << >>]_vars

\* C4, amended: the same for a device that is disabled when the callback of
\* the poll has returned.
C4_Masked ==
    (/\ ret.op = "GetDeviceState" /\ ret.returned
     /\ ret.wrapped = "DI_OK"
     /\ di[ret.device].disabled)
    => /\ ret.result = "DI_OK"
       /\ ret.data = zero(ret.device)
       /\ ret.observed # << >>

\* The poll that saw the release of the toggle key which disabled the
\* keyboard returned zeros, and its callback saw a key down.
C4_Witness ==
    /\ ret.op = "GetDeviceState" /\ ret.returned /\ ret.device = "keyboard"
    /\ ret.wrapped = "DI_OK" /\ ret.flipped
    /\ di.keyboard.disabled
    /\ ret.observed[1] # zero("keyboard")
    /\ ret.data = zero("keyboard")

\* One enable accessor: with a value it returns the flag as it was and leaves
\* the flag at the value; repeated at once with the same value it returns
\* the value; without a value it returns the flag and changes nothing.
Accessor(op, flag, flag_after) ==
    ret'.op = op =>
        /\ ret'.result = flag
        /\ IF ret'.optional = << >>
           THEN UNCHANGED <<lifecycleVars, dx, hookVars>>
           ELSE flag_after = ret'.optional[1]
        /\ (ret.op = op /\ ret'.optional # << >> /\ ret.optional = ret'.optional)
              => ret'.result = ret'.optional[1]

\* C8: the contract of the four enable accessors (rendering, messaging,
\* keyboard, mouse).
C8_Accessors ==
    [][/\ Accessor("enable_rendering", dx.enable_rendering, dx.enable_rendering')
       /\ Accessor("enable_messaging", dx.enable_messaging, dx.enable_messaging')
       /\ Accessor("keyboard_enable", ~di.keyboard.disabled, ~di.keyboard.disabled')
       /\ Accessor("mouse_enable", ~di.mouse.disabled, ~di.mouse.disabled')]_vars

\* The keyboard was enabled and a call with the value false returned true.
C8_Witness ==
    /\ ret.op = "keyboard_enable"
    /\ ret.optional = <<FALSE>>
    /\ ret.result
    /\ di.keyboard.disabled

\* The listeners among the calls of a returned interceptor come first.
listeners_first(calls) ==
    \A i, j \in 1..Len(calls) :
        (calls[i].to = "listener" /\ calls[j].to = "original") => i < j

\* C11: a window message that comes in while messaging is enabled goes to
\* every registered message listener, with the message as it came, before
\* window_proc swallows it or passes it on, so also when it swallows it; with
\* messaging disabled no listener is called.
C11_ListenersSeeAll ==
    ret.op = "window_proc" =>
        /\ ~ret.enabled => ret.log = << >>
        /\ \A i \in 1..Len(ret.log) : ret.log[i].args = ret.args
        /\ listeners_first(ret.calls)
        /\ (ret.enabled /\ ~ret.touched)
              => invoked(ret.log) = registered["message"]

\* The messages the spec says window_proc swallows.
C12_SwallowSet ==
    {"WM_LBUTTONDOWN", "WM_LBUTTONUP", "WM_LBUTTONDBLCLK",
     "WM_RBUTTONDOWN", "WM_RBUTTONUP", "WM_RBUTTONDBLCLK",
     "WM_MBUTTONDOWN", "WM_MBUTTONUP", "WM_MBUTTONDBLCLK",
     "WM_XBUTTONDOWN", "WM_XBUTTONUP", "WM_XBUTTONDBLCLK",
     "WM_MOUSEWHEEL", "WM_MOUSEHWHEEL", "WM_KEYDOWN", "WM_KEYUP", "WM_CHAR"}

\* The calls of the saved original procedure among those of a returned
\* window_proc.
originals(calls) == {i \in 1..Len(calls) : calls[i].to = "original"}

\* C12: a call of window_proc with a message of the swallow set returns 0
\* without a call of the saved original procedure, whatever the listeners
\* returned; with any other message it calls the saved original procedure
\* once, with the arguments it got, and returns what that procedure returns.
C12_SwallowOrForward ==
    ret.op = "window_proc" =>
        IF ret.args.msg \in C12_SwallowSet
        THEN /\ ret.result = 0
             /\ originals(ret.calls) = {}
        ELSE /\ originals(ret.calls) = {Len(ret.calls)}
             /\ ret.calls[Len(ret.calls)] =
                   [to |-> "original", f |-> dx.window_proc_orig,
                    args |-> ret.args]
             /\ ret.result = ret.orig

\* A key-down message went to a listener and was swallowed.
C12_Witness ==
    /\ ret.op = "window_proc"
    /\ ret.args.msg = "WM_KEYDOWN"
    /\ ret.enabled /\ Len(ret.log) = 1
    /\ ret.result = 0

\* C13: the public interface is dispatched on the SKSE bus only by the
\* handling of an input-loaded message whose set-up succeeded, once, and
\* only with the interface of the detour provider accepted: never before a
\* set-up succeeded and never by a set-up that failed.
C13_DispatchOnlyAfterSetup ==
    [][/\ dispatched' # dispatched =>
             /\ ret'.op = "handle_skse_message"
             /\ ret'.type = "kMessage_InputLoaded"
             /\ ret'.setup /\ ret'.result
             /\ sseh
             /\ dispatched' = dispatched + 1
       /\ ~sseh' => dispatched' = 0]_vars

\* A set-up that failed after one that succeeded: one dispatch was made.
C13_Witness ==
    /\ ret.op = "handle_skse_message" /\ ret.setup /\ ~ret.result
    /\ dispatched = 1

\* C19: a message of the detour provider with another version tag than
\* SSEH_API_VERSION, or with the right tag and an empty payload, changes no
\* state; and as long as the interface of the provider is unset no detour
\* was requested, an input-loaded message runs no set-up and the public
\* interface is not dispatched.
C19_VersionMismatch ==
    [][/\ (/\ ret'.op = "handle_sseh_message"
           /\ (ret'.type # "SSEH_API_VERSION" \/ ret'.dataLen = 0))
          => UNCHANGED <<lifecycleVars, dx, hookVars>>
       /\ ~sseh' =>
             /\ ~dx'.create_device_orig /\ ~input_create_orig'
             /\ dx'.device_history = << >>
             /\ dispatched' = 0
             /\ ret'.op = "handle_skse_message" => ~ret'.setup]_vars

\* A message of another version came and the interface is unset.
C19_Witness ==
    /\ ret.op = "handle_sseh_message" /\ ret.type = "other" /\ ~sseh

\* The stages of the controller, read from the state.
DeviceHookInstalled == dx.create_device_orig

ActiveBindingSelected ==
    /\ dx.window # NULL /\ dx.chain # NULL
    /\ dx.device # NULL /\ dx.context # NULL

PresentHookInstalled ==
    /\ present_detour.applied
    /\ dx.window # NULL /\ wndproc[dx.window] = WindowProcHook

\* C20: the stages come in the order Uninitialized, DeviceHookInstalled,
\* ActiveBindingSelected, PresentHookInstalled.  The present detour and the
\* window procedure interceptor exist only with an active binding, and that
\* only with the device-creation hook; a set-up or a device detour that
\* fails leaves or logs an error; and the binding and the present hook
\* change only in the handling of an input-loaded message.
C20_StageOrder ==
    [][/\ (present_detour.applied \/ \E w \in Windows : wndproc[w] = WindowProcHook)'
             => (PresentHookInstalled /\ ActiveBindingSelected)'
       /\ (dx.window # NULL \/ dx.chain # NULL)'
             => (ActiveBindingSelected /\ DeviceHookInstalled)'
       /\ (ret'.op = "handle_skse_message" /\ ret'.setup /\ ~ret'.result)
             => ssegui_error' # ""
       /\ (ret'.op = "handle_sseh_message" /\ ret'.accepted
             /\ ~DeviceHookInstalled')
             => \E i \in 1..Len(ret'.logged) :
                   ret'.logged[i] = "detour_create_device"
       /\ (\/ ActiveBindingSelected' # ActiveBindingSelected
           \/ PresentHookInstalled' # PresentHookInstalled
           \/ wndproc' # wndproc \/ present_detour' # present_detour)
             => (ret'.op = "handle_skse_message"
                 /\ ret'.type = "kMessage_InputLoaded" /\ ret'.setup)
       /\ DeviceHookInstalled' # DeviceHookInstalled
             => (ret'.op = "handle_sseh_message" /\ ret'.accepted)]_vars

\* A set-up stopped at the detour of Present: the binding is selected, the
\* present hook is not installed and the error is set.
C20_Witness ==
    /\ ret.op = "handle_skse_message" /\ ret.setup /\ ~ret.result
    /\ ret.sseh = "detour"
    /\ DeviceHookInstalled /\ ActiveBindingSelected /\ ~PresentHookInstalled
    /\ ssegui_error # ""


\* A call of ssgui_last_error that found a text stored in ssegui_error.
stored_error_call ==
    /\ ret.op = "ssgui_last_error"
    /\ Len(ret.error) > 0

\* The bytes of a buffer the call wrote: those that differ from what the
\* caller's buffer held.
written(message, out) ==
    {i \in 1..Len(message[1]) : out.dst[1][i] # message[1][i]}

\* C14: with a message of length L stored, a call with a null buffer sets
\* *size to L+1 and writes nothing, a call with a buffer of L+1 bytes fills
\* it with the whole message and a terminator, and a buffer of c < L+1
\* bytes receives the first c-1 bytes of the message and a terminator.
C14_TwoPhase ==
    (stored_error_call /\ ret.size # nullptr) =>
        LET L == Len(ret.error)
            c == ret.size[1]
        IN  /\ ret.out.n = <<L + 1>>
            /\ ret.message = nullptr =>
                   (ret.out.dst = nullptr /\ ret.out.overrun = 0)
            /\ (ret.message # nullptr /\ c = L + 1) =>
                   (ret.out.dst = <<ret.error \o <<0>> >> /\ ret.out.overrun = 0)
            /\ (ret.message # nullptr /\ c < L + 1) =>
                   /\ ret.out.dst = <<SubSeq(ret.error, 1, c - 1) \o <<0>> >>
                   /\ ret.out.overrun = 0

\* C14 for the buffers that have room for the terminator.
C14_TwoPhase_Room ==
    (stored_error_call /\ ret.size # nullptr
        /\ (ret.message # nullptr => ret.size[1] >= 1)) => C14_TwoPhase

\* The message a call of ssgui_last_error reports: the stored text, or the
\* text of the system's error when none is stored.
reported ==
    IF Len(ret.error) > 0 THEN ret.error ELSE ret.m

no_error ==
    Len(ret.error) = 0 /\ ret.err = "ERROR_SUCCESS"

\* C15: on exit of ssegui_last_error *size is the number of bytes written
\* to a buffer that took the whole message, the terminator not counted; it
\* is the number of bytes the whole message needs when the buffer is null
\* or too small; and it is zero when there is no error.  Stated of the
\* calls that have a message to report or no error at all.
C15_SizeOnExit ==
    (ret.op = "ssgui_last_error" /\ ret.size # nullptr /\ ret.converted) =>
        LET L == Len(reported) IN
        IF no_error THEN ret.out.n = <<0>>
        ELSE IF ret.message # nullptr /\ ret.size[1] >= L + 1
             THEN ret.out.n = <<Cardinality(written(ret.message, ret.out)) - 1>>
             ELSE ret.out.n = <<L + 1>>

\* The part of C15 the code keeps: zero with no error, and else the bytes
\* the whole message needs, whatever the buffer, when the text is converted.
C15_SizeIsNeed ==
    (ret.op = "ssgui_last_error" /\ ret.size # nullptr /\ ret.converted) =>
        ret.out.n = IF no_error THEN <<0>> ELSE <<Len(reported) + 1>>

Slots == {"api", "maj", "imp", "build"}

\* C16: for every subset of null slots the version query completes, leaves
\* each null slot null and writes each other one: api with the compiled-in
\* SSGUI_API_VERSION, major and patch with numbers that are not negative
\* and the build slot with a timestamp that is not null.
C16_VersionSlots ==
    ret.op = "ssgui_version" =>
        /\ ~fault
        /\ \A s \in Slots :
               /\ ret.in[s] = nullptr => ret.out[s] = nullptr
               /\ ret.in[s] # nullptr => ret.out[s] # ret.in[s]
        /\ ret.in.api # nullptr => ret.out.api = <<SSGUI_API_VERSION>>
        /\ ret.in.maj # nullptr => ret.out.maj[1] >= 0
        /\ ret.in.imp # nullptr => ret.out.imp[1] >= 0
        /\ ret.in.build # nullptr => ret.out.build[1] # nullptr

\* A query with the api and the patch slot null and the other two written.
C16_Witness ==
    /\ ret.op = "ssgui_version"
    /\ ret.in.api = nullptr /\ ret.in.imp = nullptr
    /\ ret.in.maj # nullptr /\ ret.in.build # nullptr
    /\ ret.out.maj = <<ret.ver[2]>>
    /\ ret.out.build = <<(<<SSGUI_TIMESTAMP>>)>>

\* How many times the running interceptor invoked the listener c.
invocations(c) ==
    Cardinality({i \in 1..Len(frame.log) : frame.log[i].f = c})

\* A listener of the running interceptor has just been invoked, or the
\* read of its slot has just ended the process.
listener_turn ==
    frame.op # "none" /\ ret.op = "listener"

\* C17: a listener that registers or unregisters a listener from inside a
\* broadcast does not break the iteration.  The loop invokes no entry past
\* the end of the registry (a removed or out-of-range one) and does not
\* fault; the registry stays free of duplicates; and when the broadcast
\* returns, every listener that was registered when it started and was not
\* removed since has been invoked exactly once.
C17_IterationSafe ==
    [][/\ listener_turn' =>
              /\ ~fault'
              /\ frame'.i - 1 <= registry(registry_of(frame.op)).size
       /\ \A kind \in Kinds : NoDuplicates(elements(registry_after(kind)))
       /\ (frame.op # "none" /\ frame'.op = "none") =>
              \A c \in Callbacks :
                 ((\E i \in 1..Len(frame.start) : frame.start[i] = c)
                      /\ c \notin frame.removed) => invocations(c) = 1]_vars

\* A call of GetDeviceData of the keyboard proxy that returned to the host.
polled == ret.op = "GetDeviceData" /\ ret.returned

\* C18: while the keyboard is disabled GetDeviceData reports zero items and
\* empties the queue of the wrapped device (when the wrapped call
\* succeeds), so that no event that was queued while the keyboard was
\* disabled is returned to the caller once the keyboard is enabled again.
C18_NoLeak ==
    polled =>
        /\ ret.drained =>
               /\ ret.items = 0 /\ ret.rgdod = << >>
               /\ ret.result = "DI_OK" => keyboard_queue = << >>
        /\ \A i \in 1..Len(ret.rgdod) : ~ret.rgdod[i].disabled

\* The part of C18 that the code keeps: what a poll of the disabled
\* keyboard does.
C18_Drain ==
    (polled /\ ret.drained) =>
        /\ ret.items = 0 /\ ret.rgdod = << >>
        /\ ret.result = "DI_OK" => keyboard_queue = << >>

\* The step is a call of setup_window (made for the input-loaded message)
\* that returned false.
setup_failed ==
    /\ ret'.op = "handle_skse_message" /\ ret'.setup
    /\ ~ret'.result

\* What setup_window binds and saves: device, context, chain and window
\* (what render_parameter hands out) and the two saved originals.
binding(d) ==
    <<d.device, d.context, d.chain, d.window, d.chain_present_orig,
      d.window_proc_orig>>

\* C21: a set-up that fails, at whatever step, leaves the active binding,
\* the saved original present and window procedure pointers, the cursor
\* clip and the procedure of every window as they were before the call.
C21_NoPartialEffects ==
    [][setup_failed =>
          /\ binding(dx') = binding(dx)
          /\ cursor_clip' = cursor_clip
          /\ wndproc' = wndproc]_vars

\* The part of C21 that holds: a set-up that fails for want of a qualifying
\* record, and any failing set-up as far as the window procedures and
\* dx.window_proc_orig go.
C21_NoRecord ==
    [][setup_failed =>
          /\ wndproc' = wndproc
          /\ dx'.window_proc_orig = dx.window_proc_orig
          /\ select_device(dx.device_history, visible_window, titled_window) = 0
                => (binding(dx') = binding(dx) /\ cursor_clip' = cursor_clip)]_vars

\* C22: the active binding is set once.  Once a set-up has succeeded (the
\* interface was dispatched), no lifecycle message and no device-creation
\* call changes the bound device, context, chain or window or the saved
\* original present pointer or window procedure.
C22_SetOnce ==
    [][dispatched >= 1 => binding(dx') = binding(dx)]_vars

\* C23: the saved original window procedure is never window_proc itself,
\* whatever lifecycle messages were delivered, so that window_proc forwards
\* to the procedure of the game.
C23_OriginalIsNotHook ==
    dx.window_proc_orig # WindowProcHook

\* C24: create_device calls the original creation function exactly once,
\* first, with the arguments it was called with, and returns what the
\* original returned, whether it appends a record or not.
C24_CallsOriginalFirst ==
    ret.op = "create_device" =>
        /\ Cardinality({i \in 1..Len(ret.calls) : ret.calls[i].to = "original"}) = 1
        /\ ret.calls[1] = [to |-> "original", args |-> ret.args]
        /\ ret.result = ret.orig

\* The original failed, nothing was recorded and the failure was returned.
C24_Witness ==
    /\ ret.op = "create_device"
    /\ ret.orig = "E_FAIL" /\ ret.result = "E_FAIL"
    /\ Len(ret.calls) = 1 /\ ret.calls[1].to = "original"
    /\ Len(dx.device_history) = ret.size

\* C25: a record is appended only for a creation call whose original
\* function returned success; a call that returned a failure adds none,
\* whatever its output slots and its swap chain description hold.
C25_RecordsOnlySuccess ==
    (ret.op = "create_device" /\ ret.orig # "S_OK") =>
        Len(dx.device_history) = ret.size

\* C26: the append to the device history and every read of it that the
\* set-up makes, the emptiness check included, are made with
\* dx.device_mutex held, so that no read overlaps an append.
C26_HistoryLocked ==
    /\ (ret.op = "setup_imgui" /\ ret.step \in {"size", "scan"}) =>
           (ret.locked /\ ~ret.modifying)
    /\ (ret.op = "create_device" /\ ret.step = "push_back") => ret.locked

\* The part of C26 that holds: the append and the scan exclude each other.
C26_ScanLocked ==
    /\ (ret.op = "setup_imgui" /\ ret.step = "scan") =>
           (ret.locked /\ ~ret.modifying)
    /\ (ret.op = "create_device" /\ ret.step = "push_back") => ret.locked
    /\ pc.create = "pushing" => device_mutex = "create"
    /\ pc.setup = "scan" => device_mutex = "setup"

\* C27: when detour_create_device fails in handle_sseh_message, the rest of
\* the handler is not performed: detour_dinput is not called and the
\* input-factory detour is as it was.
C27_AbortsAfterFailure ==
    [][(ret'.op = "handle_sseh_message" /\ ret'.accepted /\ ~ret'.dx_ok) =>
           /\ ret'.calls = <<"detour_create_device">>
           /\ input_create_orig' = input_create_orig
           /\ dx'.create_device_orig = dx.create_device_orig]_vars

\* C28: a set-up operation returns false exactly when it leaves a non-empty
\* ssegui_error: after setup_window or detour_dinput has returned true the
\* string is empty, after it has returned false the string is set.
C28_ErrorIffFalse ==
    /\ (ret.op = "handle_skse_message" /\ ret.setup) =>
           (ret.result <=> ssegui_error = "")
    /\ (ret.op = "handle_sseh_message" /\ ret.accepted) =>
           (ret.di_ok <=> ssegui_error = "")

\* The part of C28 that holds: a call that returns false leaves a message,
\* and detour_dinput leaves one only then.
C28_FalseHasError ==
    /\ (ret.op = "handle_skse_message" /\ ret.setup /\ ~ret.result) =>
           ssegui_error # ""
    /\ (ret.op = "handle_sseh_message" /\ ret.accepted) =>
           (ret.di_ok <=> ssegui_error = "")

Polls == {"GetDeviceState", "GetDeviceData"}

\* A step that is a poll of a device by the host, to its return or to the
\* first listener it calls.
poll_step ==
    /\ idle
    /\ ret'.op \in Polls \cup {"enter"}
    /\ ret'.op = "enter" => frame'.op \in Polls

\* Whether a poll step called handle_input_changed.
notified == IF ret'.op = "enter" THEN frame'.enabled ELSE ret'.flipped

\* C29: the toggle negates di.keyboard.disabled and di.mouse.disabled in
\* one step, and that step is the one that calls handle_input_changed, once;
\* no other step changes a flag, so a listener is called with both flags
\* flipped and the poll returns with both flipped.
C29_FlipsTogether ==
    [][LET kflip == di'.keyboard.disabled # di.keyboard.disabled
           mflip == di'.mouse.disabled # di.mouse.disabled
       IN  /\ kflip <=> mflip
           /\ poll_step => (kflip <=> notified)
           /\ ~poll_step => ~kflip
           /\ (ret'.op = "listener" /\ ~fault' /\ frame.op \in Polls) =>
                  /\ frame.enabled
                  /\ frame'.log[Len(frame'.log)].args =
                         [keyboard |-> ~di.keyboard.disabled,
                          mouse |-> ~di.mouse.disabled]]_vars

\* A listener of mode changes has been called after the toggle disabled
\* both devices.
C29_Witness ==
    /\ ret.op = "listener" /\ frame.op \in Polls /\ frame.enabled
    /\ Len(frame.log) = 1
    /\ frame.log[1].args = [keyboard |-> FALSE, mouse |-> FALSE]
    /\ di.keyboard.disabled /\ di.mouse.disabled

\* The four steps the claim names for each device.
Reconfigure == <<"Unacquire", "SetCooperativeLevel", "SetDataFormat", "Acquire">>

\* C30: a mode change makes the four calls on the keyboard proxy, then the
\* four on the mouse proxy, the cooperative level exclusive exactly for a
\* device that is now enabled and the data format the remembered one; no
\* listener has been called by then, and each listener is then called with
\* the negations of the two flags.
C30_ModeChangeOrder ==
    [][/\ (poll_step /\ notified) =>
           LET c == ret'.calls
           IN  /\ Len(c) = 8
               /\ \A i \in 1..8 :
                     /\ c[i].to = (IF i <= 4 THEN "keyboard" ELSE "mouse")
                     /\ c[i].call = Reconfigure[((i - 1) % 4) + 1]
               /\ c[2].args[1] = di.window /\ c[6].args[1] = di.window
               /\ "DISCL_EXCLUSIVE" \in c[2].args[2] <=> ~di'.keyboard.disabled
               /\ "DISCL_NONEXCLUSIVE" \in c[2].args[2] <=> di'.keyboard.disabled
               /\ "DISCL_EXCLUSIVE" \in c[6].args[2] <=> ~di'.mouse.disabled
               /\ "DISCL_NONEXCLUSIVE" \in c[6].args[2] <=> di'.mouse.disabled
               /\ c[3].args = <<di.keyboard.data_format>>
               /\ c[7].args = <<di.mouse.data_format>>
               /\ IF ret'.op = "enter" THEN frame'.log = << >> /\ frame'.i = 1
                  ELSE ret'.log = << >>
       /\ (ret'.op = "listener" /\ ~fault' /\ frame.op \in Polls) =>
              /\ frame'.log[Len(frame'.log)].args.keyboard = ~di'.keyboard.disabled
              /\ frame'.log[Len(frame'.log)].args.mouse = ~di'.mouse.disabled]_vars

\* Both devices have been reconfigured for a disabled mode and the first
\* listener is about to be called.
C30_Witness ==
    /\ ret.op = "enter" /\ frame.op \in Polls /\ frame.enabled
    /\ frame.i = 1 /\ frame.end > 0
    /\ Len(ret.calls) = 8
    /\ "DISCL_NONEXCLUSIVE" \in ret.calls[2].args[2]
    /\ di.keyboard.disabled /\ di.mouse.disabled

\* C31: a toggle flip fires only when both device proxies exist, so the
\* Expects (di.keyboard.input && di.mouse.input) of dinput_exclusive_mode
\* holds whenever handle_input_changed is called.
C31_ProxiesSet ==
    [][(/\ idle
        /\ ret'.op \in Polls \cup {"enter"}
        /\ di'.keyboard.disabled # di.keyboard.disabled)
       => (di.keyboard.input # NULL /\ di.mouse.input # NULL /\ ~fault')]_vars

\* A step in which handle_input_changed runs: the poll that flips the mode.
mode_change == idle /\ ret'.op \in Polls \cup {"enter"}
                    /\ di'.keyboard.disabled # di.keyboard.disabled

\* C32: when handle_input_changed uses di.keyboard.input and di.mouse.input,
\* the proxies they point to have not deleted themselves.
C32_ProxyAlive ==
    [][mode_change => (com.keyboard.alive /\ com.mouse.alive)]_vars

\* The part of C33 about AddRef and Release themselves: they return the
\* count of the wrapped object, the wrapped object is released before the
\* proxy deletes itself, and a proxy is deleted exactly at count zero.
C33_DestroyedAtZero ==
    [][/\ ret'.op = "AddRef" =>
              (ret'.result = com'[ret'.obj].refs /\ com'[ret'.obj].alive)
       /\ ret'.op = "Release" =>
              /\ ret'.result = com'[ret'.obj].refs
              /\ ret'.result = com[ret'.obj].refs - 1
              /\ com'[ret'.obj].alive <=> ret'.result > 0
              /\ ret'.steps[1] = "p->Release"
              /\ ~com'[ret'.obj].alive => ret'.steps = <<"p->Release", "delete this">>
       /\ \A o \in Wrapped : com'[o].alive <=> com'[o].refs > 0]_vars

\* C33: the above, and no method of a proxy runs after the proxy was
\* destroyed, the calls dinput_exclusive_mode makes through the remembered
\* proxies included.
C33_RefCount ==
    [][/\ ret'.op = "AddRef" =>
              (ret'.result = com'[ret'.obj].refs /\ com'[ret'.obj].alive)
       /\ ret'.op = "Release" =>
              /\ ret'.result = com'[ret'.obj].refs
              /\ com'[ret'.obj].alive <=> ret'.result > 0
       /\ \A o \in Wrapped : com'[o].alive <=> com'[o].refs > 0
       /\ (ret'.op \in Polls \cup {"enter"} /\ idle) =>
              com[IF ret'.op = "enter" THEN "keyboard" ELSE ret'.device].alive
       /\ mode_change => \A o \in Devices : com[o].alive]_vars

\* C34: a keyboard poll that flips the mode and returns is masked by the
\* flag as keyboard_callback left it: with the keyboard now disabled
\* GetDeviceState gives zeroes and GetDeviceData no item, with the keyboard
\* now enabled GetDeviceState gives the sample and GetDeviceData what the
\* wrapped device has buffered.
C34_MaskAfterCallback ==
    [][(/\ idle /\ ret'.op \in Polls
        /\ ret'.device = "keyboard" /\ ret'.wrapped = "DI_OK"
        /\ ret'.returned /\ ret'.flipped)
       => /\ di'.keyboard.disabled = ~di.keyboard.disabled
          /\ ret'.op = "GetDeviceState" =>
                 ret'.data = IF di'.keyboard.disabled THEN zero("keyboard")
                             ELSE ret'.observed[1]
          /\ ret'.op = "GetDeviceData" =>
                 /\ ret'.drained = di'.keyboard.disabled
                 /\ di'.keyboard.disabled => (ret'.items = 0 /\ ret'.rgdod = << >>)
                 /\ (~di'.keyboard.disabled /\ ret'.result = "DI_OK") =>
                        ret'.rgdod = keyboard_queue]_vars

\* The poll that saw the release of the toggle key disabled the keyboard
\* and was itself returned zeroed, although another key was down in it.
C34_Witness ==
    /\ ret.op = "GetDeviceState" /\ ret.device = "keyboard"
    /\ ret.wrapped = "DI_OK" /\ ret.returned /\ ret.flipped
    /\ di.keyboard.disabled
    /\ ret.observed[1] # zero("keyboard")
    /\ ret.data = zero("keyboard")

\* C35: a flip fires only on the edge of the toggle key that is configured
\* now.  A poll flips only when the state remembered from the sample before
\* was taken for the key configured now, was down, and the key is up now;
\* and after a change of the key right after a sample, a key remembered as
\* down is one the new key was down in that sample, not the old key.
C35_KeyEdge ==
    [][/\ (/\ ret'.op \in Polls /\ ret'.device = "keyboard"
           /\ ret'.wrapped = "DI_OK" /\ ret'.flipped)
          => /\ last_sample # << >>
             /\ last_sample[1].key = di.disable_dinput_key
             /\ last_sample[1].down
             /\ ret'.observed[1][di.disable_dinput_key] = 0
       /\ (/\ ret.op \in Polls /\ ret.device = "keyboard" /\ ret.wrapped = "DI_OK"
           /\ ret'.op = "dinput_disable_key" /\ ~fault'
           /\ di'.disable_dinput_key # di.disable_dinput_key)
          => (di'.disable_dinput_key_pressed =>
                  ret.observed[1][di'.disable_dinput_key] # 0)]_vars

\* C36: keyboard_enable and mouse_enable change the disabled flag of their
\* device and nothing else: the other flag, the toggle key and its
\* remembered state, the window, the cooperative flags and the data formats
\* of the proxies stay, and no listener of mode changes is called.
C36_SettersOnlyFlag ==
    [][/\ ret'.op = "keyboard_enable" =>
              /\ di' = [di EXCEPT !.keyboard.disabled = di'.keyboard.disabled]
              /\ di'.keyboard.disabled =
                     (IF ret'.optional = << >> THEN di.keyboard.disabled
                      ELSE ~ret'.optional[1])
       /\ ret'.op = "mouse_enable" =>
              /\ di' = [di EXCEPT !.mouse.disabled = di'.mouse.disabled]
              /\ di'.mouse.disabled =
                     (IF ret'.optional = << >> THEN di.mouse.disabled
                      ELSE ~ret'.optional[1])
       /\ ret'.op \in {"keyboard_enable", "mouse_enable"} =>
              /\ frame'.op = frame.op /\ frame'.log = frame.log
              /\ frame'.i = frame.i
              /\ disable_listeners' = disable_listeners
              /\ com' = com]_vars

\* The keyboard was disabled by its setter: the mouse is still enabled and
\* the keyboard proxy still has the exclusive level the host gave it.
C36_Witness ==
    /\ ret.op = "keyboard_enable" /\ ret.optional = <<FALSE>> /\ ret.result
    /\ di.keyboard.disabled /\ ~di.mouse.disabled
    /\ "DISCL_EXCLUSIVE" \in di.keyboard.cooperative_flags

\* What render_parameter hands out for its four names.
handles == <<dx.device, dx.context, dx.chain, dx.window>>

\* C37: the four handles are all null or those of one record of the device
\* history; a query gives the handle of its name as it is then, and a query
\* with a name render_parameter does not know fails and writes nothing.
C37_OneRecord ==
    /\ \/ handles = <<NULL, NULL, NULL, NULL>>
       \/ \E i \in DOMAIN dx.device_history :
             LET r == dx.device_history[i]
             IN  handles = <<r.device, r.context, r.chain, r.window>>
    /\ ret.op = "render_parameter" =>
          /\ ret.name = "ID3D11Device" => (ret.result /\ ret.value = <<dx.device>>)
          /\ ret.name = "ID3D11DeviceContext" => (ret.result /\ ret.value = <<dx.context>>)
          /\ ret.name = "IDXGISwapChain" => (ret.result /\ ret.value = <<dx.chain>>)
          /\ ret.name = "window" => (ret.result /\ ret.value = <<dx.window>>)
          /\ ret.name \notin ParameterNames => (~ret.result /\ ret.value = << >>)

\* A plugin read the swap chain after a second set-up bound the second
\* record of the history.
C37_Witness ==
    /\ ret.op = "render_parameter" /\ ret.name = "IDXGISwapChain"
    /\ dispatched = 2
    /\ Len(dx.device_history) >= 2
    /\ ret.value = <<dx.device_history[2].chain>>
    /\ dx.device_history[2].chain # dx.device_history[1].chain

\* The flags dinput_exclusive_mode passed to SetCooperativeLevel of a device.
passed(calls, device) == calls[IF device = "keyboard" THEN 2 ELSE 6].args

\* C38: at a mode change each proxy is given flags with exactly one of
\* DISCL_EXCLUSIVE and DISCL_NONEXCLUSIVE, the exclusive one exactly when the
\* device is now enabled, and with the other flags and the window as they
\* were remembered from the host; for a device the host has given a level
\* these are the flags and the window remembered from then on.
C38_ReappliedFlags ==
    [][(mode_change /\ ~fault') =>
          \A device \in Devices :
             LET f == passed(ret'.calls, device)[2]
             IN  /\ passed(ret'.calls, device)[1] = di.window
                 /\ Cardinality(f \cap Exclusivity) = 1
                 /\ "DISCL_EXCLUSIVE" \in f <=> ~di'[device].disabled
                 /\ f \ Exclusivity = di[device].cooperative_flags \ Exclusivity
                 /\ di[device].cooperative_flags # {} =>
                        (di'[device].cooperative_flags = f /\ di'.window = di.window)]_vars

\* The toggle disabled both devices and then enabled them again: both are
\* back at the exclusive level, in the foreground as the host asked.
C38_Witness ==
    /\ ret.op \in Polls /\ ret.device = "keyboard" /\ ret.flipped /\ ret.returned
    /\ ~di.keyboard.disabled /\ ~di.mouse.disabled
    /\ Len(ret.calls) = 8
    /\ ret.calls[2].args[2] = {"DISCL_FOREGROUND", "DISCL_EXCLUSIVE"}
    /\ di.keyboard.cooperative_flags = {"DISCL_FOREGROUND", "DISCL_EXCLUSIVE"}
    /\ di.mouse.cooperative_flags = {"DISCL_FOREGROUND", "DISCL_EXCLUSIVE"}

\* C39: a call of ssgui_last_error with a buffer writes no byte behind the
\* *size bytes the caller declared, whatever the size and the stored
\* message, and what it writes ends with a terminator inside them.
C39_WithinSize ==
    (ret.op = "ssgui_last_error" /\ ret.size # nullptr /\ ret.message # nullptr) =>
        /\ ret.out.overrun = 0
        /\ ret.out.dst # ret.message =>
               \E i \in 1..ret.size[1] :
                  /\ ret.out.dst[1][i] = 0
                  /\ \A j \in i + 1..ret.size[1] : ret.out.dst[1][j] = ret.message[1][j]

\* The part of C39 that holds: a buffer of at least one byte is not overrun.
C39_WithinSize_Room ==
    (ret.op = "ssgui_last_error" /\ ret.size # nullptr /\ ret.message # nullptr
        /\ ret.size[1] >= 1) => ret.out.overrun = 0
=============================================================================
